---- MODULE Spec2Model ----
(***************************************************************************)
(* State-machine model of src/platform/macos_tahoe/objc_wrapper.c: the     *)
(* validated objc_msgSend call-shims, the three lazily synthesized         *)
(* classes (TahoeWindowDelegate, TahoeTimerTarget, TahoeView), the         *)
(* associated-object store that carries the window_ptr token, and the      *)
(* callbacks that route native events to the five route* entry points.     *)
(*                                                                         *)
(* Pointers are natural numbers (their addresses), doubles are integers    *)
(* (intervals are counted in tenths of a second).  A 64-bit quantity whose *)
(* width matters (an unsigned long scalar, an ISA word, modifier flags, a  *)
(* decoded character) is a tuple of four 16-bit limbs, most significant    *)
(* first.  The Objective-C runtime                                         *)
(* is the environment: every foreign call that can return NULL/NO does so  *)
(* when the environment picks it as the failing step of the operation.     *)
(***************************************************************************)
EXTENDS Integers, Sequences, FiniteSets, TLC

VARIABLES
    registry,    \* class name -> [allocated, registered, methods, regs, dup]
    instances,   \* sequence of objects allocated from the synthesized classes
    assoc,       \* associated-object store, key "windowPtr": instance -> value
    timers,      \* sequence of scheduled NSTimers
    last,        \* the last operation: inputs, result, foreign calls, routes
    threads      \* thread -> where it stands inside a constructor call

vars == <<registry, instances, assoc, timers, last, threads>>

(***************************************************************************)
(* Program constants.                                                      *)
(***************************************************************************)
NULL == 0
MinAddr == 4096
WordAlign == 8
MaxRectDim == 16384
IntervalOne == 10
Limb == 65536

(***************************************************************************)
(* 64-bit values as four 16-bit limbs.                                     *)
(***************************************************************************)
\* The wide form of a natural number below 2^31.
W(n) == <<0, 0, n \div Limb, n % Limb>>

WGt(a, b) ==
    \/ a[1] > b[1]
    \/ a[1] = b[1] /\ a[2] > b[2]
    \/ a[1] = b[1] /\ a[2] = b[2] /\ a[3] > b[3]
    \/ a[1] = b[1] /\ a[2] = b[2] /\ a[3] = b[3] /\ a[4] > b[4]

WLt(a, b) == WGt(b, a)

\* a % m for m a divisor of 2^16.
WModSmall(a, m) == a[4] % m

\* 0xFFFFFFFF and 0x7fffffffffff
MaxUInt32 == <<0, 0, 65535, 65535>>
MaxUserAddr == <<0, 32767, 65535, 65535>>

(***************************************************************************)
(* Bounds of the model.                                                    *)
(***************************************************************************)
MaxInst == 2
MaxFires == 2

(***************************************************************************)
(* Input samples.                                                          *)
(***************************************************************************)
\* null; below the floor and aligned (8 and the last aligned word, 0xFF8);
\* the floor itself; above it and misaligned (by 1 and by 4); valid.
AddrSamples == {0, 8, 4088, 4096, 4097, 4100, 4104}
\* The same classes, fewer members, for a second pointer argument.
ArgAddrSamples == {0, 4088, 4100, 4104}
SelSamples == {0, 4242}
\* <<width, height>> of the rectangle found at rect_ptr.
DimSamples ==
    {<<0, 0>>, <<800, 600>>, <<16384, 16384>>, <<-1, 600>>, <<800, -1>>,
     <<16385, 600>>, <<800, 16385>>}
\* <<arg2, arg3>>: 0, 0xFFFFFFFF, 0x100000000
ScalarPairs ==
    {<<(<<0, 0, 0, 0>>), (<<0, 0, 0, 0>>)>>,
     <<(<<0, 0, 65535, 65535>>), (<<0, 0, 65535, 65535>>)>>,
     <<(<<0, 1, 0, 0>>), (<<0, 0, 0, 2>>)>>,
     <<(<<0, 0, 0, 2>>), (<<0, 1, 0, 0>>)>>}
ScalarSamples == {<<0, 0, 0, 0>>, <<0, 0, 65535, 65535>>, <<0, 1, 0, 0>>}
BoolSamples == {0, 1}
\* The NSRect stored at rect_ptr.
RectAt(d) == [x |-> 1, y |-> 2, w |-> d[1], h |-> d[2]]
\* What a foreign call returning id may return.
ForeignResults == {0, 20480}
\* What a foreign call returning NSRect may return.
ForeignDims == {<<0, 0>>, <<20000, 600>>, <<-1, 600>>}
\* The word found at a receiver's address (its ISA pointer).
\* NULL, 8, 0x1004, 0x1008, 0x7ffffffffff8, 0x800000000000
IsaSamples ==
    {<<0, 0, 0, 0>>, <<0, 0, 0, 8>>, <<0, 0, 0, 4100>>, <<0, 0, 0, 4104>>,
     <<0, 32767, 65535, 65528>>, <<0, 32768, 0, 0>>}

ZeroRect == [x |-> 0, y |-> 0, w |-> 0, h |-> 0]
\* The frame a receiver answers with.
FrameOf(d) == [x |-> 5, y |-> 6, w |-> d[1], h |-> d[2]]

(***************************************************************************)
(* The record of one operation.                                            *)
(***************************************************************************)
MsgSend(recv, sel, a, res) ==
    [fn |-> "objc_msgSend", recv |-> recv, sel |-> sel, args |-> a, res |-> res]

\* An operation that returned its sentinel with no foreign call.
Rejected(diag) ==
    [ret |-> NULL, rect |-> ZeroRect, calls |-> <<>>, derefs |-> <<>>,
     diags |-> diag, routed |-> <<>>]

\* An operation that forwarded to the runtime once.
Forwarded(call, res, derefs, diag) ==
    [ret |-> res, rect |-> ZeroRect, calls |-> <<call>>, derefs |-> derefs,
     diags |-> diag, routed |-> <<>>]

Op(name, args, out) ==
    [op |-> name, args |-> args, ret |-> out.ret, rect |-> out.rect,
     calls |-> out.calls, derefs |-> out.derefs, diags |-> out.diags,
     routed |-> out.routed]

(***************************************************************************)
(* Validated invocation gateway.                                           *)
(***************************************************************************)
\* A faulty variant of objc_msgSend_wrapper_string: the string pointer
\* must be 8-byte aligned.
StringRequiresAlignment(receiver, selector, utf8_string, fres) ==
    IF receiver = NULL THEN Rejected(<<"NULL receiver">>)
    ELSE IF selector = NULL THEN Rejected(<<"NULL selector">>)
    ELSE IF utf8_string = NULL THEN Rejected(<<"NULL utf8_string">>)
    ELSE IF receiver < MinAddr THEN Rejected(<<"Invalid receiver address">>)
    ELSE IF receiver % WordAlign # 0 THEN Rejected(<<"Receiver not aligned">>)
    ELSE IF utf8_string < MinAddr \/ utf8_string % WordAlign # 0
    THEN Rejected(<<"Invalid string address">>)
    ELSE Forwarded(MsgSend(receiver, selector, <<utf8_string>>, fres), fres, <<>>, <<>>)

objc_msgSend_wrapper_string(receiver, selector, utf8_string, fres) ==
    IF receiver = NULL THEN Rejected(<<"NULL receiver">>)
    ELSE IF selector = NULL THEN Rejected(<<"NULL selector">>)
    ELSE IF utf8_string = NULL THEN Rejected(<<"NULL utf8_string">>)
    ELSE IF receiver < MinAddr THEN Rejected(<<"Invalid receiver address">>)
    ELSE IF receiver % WordAlign # 0 THEN Rejected(<<"Receiver not aligned">>)
    ELSE IF utf8_string < MinAddr THEN Rejected(<<"Invalid string address">>)
    ELSE Forwarded(MsgSend(receiver, selector, <<utf8_string>>, fres), fres, <<>>, <<>>)

\* A faulty variant of objc_msgSend_wrapper: no upper bound on the ISA word.
WrapperNoUpperBound(receiver, selector, isa_ptr, fres) ==
    IF receiver = NULL \/ selector = NULL THEN Rejected(<<>>)
    ELSE IF receiver < MinAddr \/ receiver % WordAlign # 0 THEN Rejected(<<>>)
    ELSE LET read == <<[addr |-> receiver, val |-> isa_ptr]>>
             dbg == <<"receiver, ISA pointer">>
         IN  IF \/ isa_ptr = W(NULL)
                \/ WLt(isa_ptr, W(MinAddr))
                \/ WModSmall(isa_ptr, WordAlign) # 0
             THEN [Rejected(dbg) EXCEPT !.derefs = read]
             ELSE Forwarded(MsgSend(receiver, selector, <<>>, fres), fres, read, dbg)

objc_msgSend_wrapper(receiver, selector, isa_ptr, fres) ==
    IF receiver = NULL THEN Rejected(<<>>)
    ELSE IF selector = NULL THEN Rejected(<<>>)
    ELSE IF receiver < MinAddr THEN Rejected(<<>>)
    ELSE IF receiver % WordAlign # 0 THEN Rejected(<<>>)
    ELSE LET read == <<[addr |-> receiver, val |-> isa_ptr]>>
             dbg == <<"receiver, ISA pointer">>
             Refuse == [Rejected(dbg) EXCEPT !.derefs = read]
         IN  IF isa_ptr = W(NULL) THEN Refuse
             ELSE IF WLt(isa_ptr, W(MinAddr)) THEN Refuse
             ELSE IF WModSmall(isa_ptr, WordAlign) # 0 THEN Refuse
             ELSE IF WGt(isa_ptr, MaxUserAddr) THEN Refuse
             ELSE Forwarded(MsgSend(receiver, selector, <<>>, fres), fres, read, dbg)

\* A faulty variant of objc_msgSend_wrapper_rect: the range check looks at
\* the width only.
WrapperRectWidthOnly(receiver, selector, rect_ptr, mem, fres) ==
    IF receiver = NULL \/ selector = NULL \/ rect_ptr = NULL THEN Rejected(<<"NULL">>)
    ELSE IF receiver < MinAddr \/ receiver % WordAlign # 0
    THEN Rejected(<<"Invalid receiver">>)
    ELSE IF rect_ptr < MinAddr \/ rect_ptr % WordAlign # 0
    THEN Rejected(<<"Invalid rect_ptr">>)
    ELSE IF mem.w < 0 \/ mem.w > MaxRectDim
    THEN [Rejected(<<"Invalid rect dimensions">>)
            EXCEPT !.derefs = <<[addr |-> rect_ptr, val |-> mem]>>]
    ELSE Forwarded(MsgSend(receiver, selector, <<mem>>, fres), fres,
                   <<[addr |-> rect_ptr, val |-> mem]>>, <<>>)

objc_msgSend_wrapper_rect(receiver, selector, rect_ptr, mem, fres) ==
    IF receiver = NULL THEN Rejected(<<"NULL receiver">>)
    ELSE IF selector = NULL THEN Rejected(<<"NULL selector">>)
    ELSE IF rect_ptr = NULL THEN Rejected(<<"NULL rect_ptr">>)
    ELSE IF receiver < MinAddr THEN Rejected(<<"Invalid receiver address">>)
    ELSE IF receiver % WordAlign # 0 THEN Rejected(<<"Receiver not aligned">>)
    ELSE IF rect_ptr < MinAddr THEN Rejected(<<"Invalid rect_ptr address">>)
    ELSE IF rect_ptr % WordAlign # 0 THEN Rejected(<<"rect_ptr not aligned">>)
    ELSE LET rect == mem
             read == <<[addr |-> rect_ptr, val |-> rect]>>
         IN  IF rect.w < 0 \/ rect.h < 0
             THEN [Rejected(<<"Invalid rect dimensions">>) EXCEPT !.derefs = read]
             ELSE IF rect.w > MaxRectDim \/ rect.h > MaxRectDim
             THEN [Rejected(<<"Rect dimensions too large">>) EXCEPT !.derefs = read]
             ELSE Forwarded(MsgSend(receiver, selector, <<rect>>, fres), fres, read, <<>>)

\* A faulty variant of objc_msgSend_wrapper_4: the rectangle is copied
\* before the scalars are checked.
Wrapper4CopiesFirst(receiver, selector, rect_ptr, mem, arg2, arg3, arg4, fres) ==
    IF receiver = NULL THEN Rejected(<<"NULL receiver">>)
    ELSE IF selector = NULL THEN Rejected(<<"NULL selector">>)
    ELSE IF rect_ptr = NULL THEN Rejected(<<"NULL rect_ptr">>)
    ELSE IF receiver < MinAddr THEN Rejected(<<"Invalid receiver address">>)
    ELSE IF receiver % WordAlign # 0 THEN Rejected(<<"Receiver not aligned">>)
    ELSE IF rect_ptr < MinAddr THEN Rejected(<<"Invalid rect_ptr address">>)
    ELSE IF rect_ptr % WordAlign # 0 THEN Rejected(<<"rect_ptr not aligned">>)
    ELSE LET rect == mem
             read == <<[addr |-> rect_ptr, val |-> rect]>>
         IN  IF WGt(arg2, MaxUInt32)
             THEN [Rejected(<<"arg2 (styleMask) too large">>) EXCEPT !.derefs = read]
             ELSE IF WGt(arg3, MaxUInt32)
             THEN [Rejected(<<"arg3 (backingType) too large">>) EXCEPT !.derefs = read]
             ELSE IF rect.w < 0 \/ rect.h < 0
             THEN [Rejected(<<"Invalid rect dimensions">>) EXCEPT !.derefs = read]
             ELSE IF rect.w > MaxRectDim \/ rect.h > MaxRectDim
             THEN [Rejected(<<"Rect dimensions too large">>) EXCEPT !.derefs = read]
             ELSE Forwarded(MsgSend(receiver, selector, <<rect, arg2, arg3, arg4>>, fres),
                            fres, read, <<>>)

objc_msgSend_wrapper_4(receiver, selector, rect_ptr, mem, arg2, arg3, arg4, fres) ==
    IF receiver = NULL THEN Rejected(<<"NULL receiver">>)
    ELSE IF selector = NULL THEN Rejected(<<"NULL selector">>)
    ELSE IF rect_ptr = NULL THEN Rejected(<<"NULL rect_ptr">>)
    ELSE IF receiver < MinAddr THEN Rejected(<<"Invalid receiver address">>)
    ELSE IF receiver % WordAlign # 0 THEN Rejected(<<"Receiver not aligned">>)
    ELSE IF rect_ptr < MinAddr THEN Rejected(<<"Invalid rect_ptr address">>)
    ELSE IF rect_ptr % WordAlign # 0 THEN Rejected(<<"rect_ptr not aligned">>)
    ELSE IF WGt(arg2, MaxUInt32) THEN Rejected(<<"arg2 (styleMask) too large">>)
    ELSE IF WGt(arg3, MaxUInt32) THEN Rejected(<<"arg3 (backingType) too large">>)
    ELSE LET rect == mem
             read == <<[addr |-> rect_ptr, val |-> rect]>>
         IN  IF rect.w < 0 \/ rect.h < 0
             THEN [Rejected(<<"Invalid rect dimensions">>) EXCEPT !.derefs = read]
             ELSE IF rect.w > MaxRectDim \/ rect.h > MaxRectDim
             THEN [Rejected(<<"Rect dimensions too large">>) EXCEPT !.derefs = read]
             ELSE Forwarded(MsgSend(receiver, selector, <<rect, arg2, arg3, arg4>>, fres),
                            fres, read, <<>>)

\* A faulty variant of objc_msgSend_void_1: a NULL argument is refused.
Void1RejectsNullArg(receiver, selector, arg1) ==
    IF receiver = NULL THEN Rejected(<<"NULL receiver">>)
    ELSE IF selector = NULL THEN Rejected(<<"NULL selector">>)
    ELSE IF receiver < MinAddr \/ receiver % WordAlign # 0
    THEN Rejected(<<"Invalid receiver">>)
    ELSE IF arg1 < MinAddr \/ arg1 % WordAlign # 0
    THEN Rejected(<<"Invalid arg1">>)
    ELSE Forwarded(MsgSend(receiver, selector, <<arg1>>, 0), NULL, <<>>, <<>>)

objc_msgSend_void_1(receiver, selector, arg1) ==
    IF receiver = NULL THEN Rejected(<<"NULL receiver">>)
    ELSE IF selector = NULL THEN Rejected(<<"NULL selector">>)
    ELSE IF receiver < MinAddr \/ receiver % WordAlign # 0
    THEN Rejected(<<"Invalid receiver">>)
    ELSE IF arg1 # NULL /\ (arg1 < MinAddr \/ arg1 % WordAlign # 0)
    THEN Rejected(<<"Invalid arg1">>)
    ELSE Forwarded(MsgSend(receiver, selector, <<arg1>>, 0), NULL, <<>>, <<>>)

objc_msgSend_void_0(receiver, selector) ==
    IF receiver = NULL THEN Rejected(<<"NULL receiver">>)
    ELSE IF selector = NULL THEN Rejected(<<"NULL selector">>)
    ELSE IF receiver < MinAddr \/ receiver % WordAlign # 0
    THEN Rejected(<<"Invalid receiver">>)
    ELSE Forwarded(MsgSend(receiver, selector, <<>>, 0), NULL, <<>>, <<>>)

objc_msgSend_void_1_bool(receiver, selector, arg1) ==
    IF receiver = NULL THEN Rejected(<<"NULL receiver">>)
    ELSE IF selector = NULL THEN Rejected(<<"NULL selector">>)
    ELSE IF receiver < MinAddr \/ receiver % WordAlign # 0
    THEN Rejected(<<"Invalid receiver">>)
    ELSE Forwarded(MsgSend(receiver, selector, <<arg1>>, 0), NULL, <<>>, <<>>)

objc_msgSend_wrapper_1_uint(receiver, selector, index, fres) ==
    IF receiver = NULL THEN Rejected(<<"NULL receiver">>)
    ELSE IF selector = NULL THEN Rejected(<<"NULL selector">>)
    ELSE IF receiver < MinAddr \/ receiver % WordAlign # 0
    THEN Rejected(<<"Invalid receiver">>)
    ELSE Forwarded(MsgSend(receiver, selector, <<index>>, fres), fres, <<>>, <<>>)

\* A faulty rectangle query: the selector is not checked.
ReturnsNSRectAnySelector(receiver, selector, frect) ==
    IF receiver = NULL THEN Rejected(<<"NULL receiver">>)
    ELSE [Forwarded(MsgSend(receiver, selector, <<>>, frect), NULL, <<>>, <<>>)
            EXCEPT !.rect = frect]

\* A faulty rectangle query: the 16384 range check is applied to the result.
ReturnsNSRectRangeChecked(receiver, selector, frect) ==
    IF receiver = NULL THEN Rejected(<<"NULL receiver">>)
    ELSE IF selector = NULL THEN Rejected(<<"NULL selector">>)
    ELSE [Forwarded(MsgSend(receiver, selector, <<>>, frect), NULL, <<>>, <<>>)
            EXCEPT !.rect = IF \/ frect.w < 0 \/ frect.h < 0
                              \/ frect.w > MaxRectDim \/ frect.h > MaxRectDim
                           THEN ZeroRect ELSE frect]

objc_msgSend_returns_NSRect(receiver, selector, frect) ==
    IF receiver = NULL THEN Rejected(<<"NULL receiver">>)
    ELSE IF selector = NULL THEN Rejected(<<"NULL selector">>)
    ELSE [Forwarded(MsgSend(receiver, selector, <<>>, frect), NULL, <<>>, <<>>)
            EXCEPT !.rect = frect]

(***************************************************************************)
(* The Objective-C runtime, as the wrapper uses it.                        *)
(***************************************************************************)
DelegateClass == "TahoeWindowDelegate"
TimerClass == "TahoeTimerTarget"
ViewClass == "TahoeView"
Classes == {DelegateClass, TimerClass, ViewClass}

DelegateMethods == <<"windowDidResize:", "windowDidBecomeKey:", "windowDidResignKey:">>
TimerMethods == <<"tahoeTimerTick:">>
ViewMethods ==
    <<"acceptsFirstResponder", "mouseDown:", "mouseUp:", "mouseDragged:",
      "mouseMoved:", "keyDown:", "keyUp:">>

Range(s) == {s[i] : i \in DOMAIN s}

\* The callbacks a registered class must carry.
Required(cls) ==
    IF cls = DelegateClass THEN Range(DelegateMethods)
    ELSE IF cls = TimerClass THEN Range(TimerMethods)
    ELSE Range(ViewMethods)

ClassHandle(cls) ==
    IF cls = DelegateClass THEN 24576
    ELSE IF cls = TimerClass THEN 24592
    ELSE IF cls = ViewClass THEN 24608
    ELSE 28672

InstHandle(i) == 8192 + 16 * i
TimerHandle(k) == 12288 + 16 * k
InstIndex(h) == (h - 8192) \div 16
TimerIndex(h) == (h - 12288) \div 16

\* One call into the runtime and what it returned (0 is NULL / NO).
Call(fn, arg, res) == [fn |-> fn, arg |-> arg, res |-> res]

\* The environment's choice of the runtime call that fails in an operation.
NoFail == <<"none", "">>
Fails(fail, fn, arg) == fail = <<fn, arg>>

\* A faulty lookup: the name is never found, so every call creates.
LookupAlwaysMisses(reg, name) == NULL

\* A faulty lookup: a class pair that was allocated but never registered
\* is found by name.
LookupFindsAllocated(reg, name) ==
    IF reg[name].allocated THEN ClassHandle(name) ELSE NULL

\* objc_getClass on a synthesized name: found only once registered.
objc_getClass(reg, name) ==
    IF reg[name].registered THEN ClassHandle(name) ELSE NULL

\* A faulty store: a write drops the entries of the other objects.
SetDropsOthers(store, obj, value) == [h \in {obj} |-> value]

\* objc_setAssociatedObject(obj, "windowPtr", value, OBJC_ASSOCIATION_ASSIGN)
objc_setAssociatedObject(store, obj, value) ==
    [h \in DOMAIN store \cup {obj} |-> IF h = obj THEN value ELSE store[h]]

\* objc_getAssociatedObject(obj, "windowPtr"): nil when nothing was set.
objc_getAssociatedObject(store, obj) ==
    IF obj \in DOMAIN store THEN store[obj] ELSE NULL

\* class_addMethod on a class: NO when the class already has the method.
class_addMethod(methods, m, fail) ==
    IF m \in methods \/ Fails(fail, "class_addMethod", m)
    THEN [added |-> 0, methods |-> methods]
    ELSE [added |-> 1, methods |-> methods \cup {m}]

(***************************************************************************)
(* Dynamic type synthesis.                                                 *)
(***************************************************************************)
World == [registry |-> registry, instances |-> instances, assoc |-> assoc,
          timers |-> timers]

\* A constructor result: the handle returned and the world it leaves.
CtorOut(w, ret, calls, diags) ==
    [ret |-> ret, rect |-> ZeroRect, calls |-> calls, derefs |-> <<>>,
     diags |-> diags, routed |-> <<>>, world |-> w]

\* The install steps of a class under construction: for each method in
\* order, resolve the selector, then class_addMethod; stop at a failure.
RECURSIVE InstallMethods(_, _, _, _)
InstallMethods(ms, i, have, fail) ==
    IF i > Len(ms) THEN [ok |-> TRUE, methods |-> have, calls |-> <<>>, diags |-> <<>>]
    ELSE IF Fails(fail, "sel_registerName", ms[i])
    THEN [ok |-> FALSE, methods |-> have,
          calls |-> <<Call("sel_registerName", ms[i], 0)>>,
          diags |-> <<"Failed to register selector">>]
    ELSE LET add == class_addMethod(have, ms[i], fail)
             done == <<Call("sel_registerName", ms[i], 1),
                       Call("class_addMethod", ms[i], add.added)>>
         IN  IF add.added = 0
             THEN [ok |-> FALSE, methods |-> add.methods, calls |-> done,
                   diags |-> <<"Failed to add method">>]
             ELSE LET rest == InstallMethods(ms, i + 1, add.methods, fail)
                  IN  [rest EXCEPT !.calls = done \o rest.calls]

\* Counting an event as never (0), once (1) or more than once (2).
Once(n) == IF n < 2 THEN n + 1 ELSE n

\* The creation path taken when the name lookup fails: base class lookup,
\* objc_allocateClassPair, the install steps, objc_registerClassPair.
\* The runtime refuses to allocate a name that is already registered (dup
\* records that it was asked to); a class pair abandoned before its
\* registration stays allocated, and the name can be allocated again.
\* regs counts the objc_registerClassPair calls made for the name.
SynthesizeClass(reg, name, base, ms, fail) ==
    IF Fails(fail, "objc_getClass", base)
    THEN [ok |-> FALSE, registry |-> reg,
          calls |-> <<Call("objc_getClass", base, 0)>>,
          diags |-> <<"base class not found">>]
    ELSE LET c1 == <<Call("objc_getClass", base, ClassHandle(base))>>
         IN  IF reg[name].registered
             THEN [ok |-> FALSE, registry |-> [reg EXCEPT ![name].dup = TRUE],
                   calls |-> c1 \o <<Call("objc_allocateClassPair", name, 0)>>,
                   diags |-> <<"Failed to allocate class">>]
             ELSE IF Fails(fail, "objc_allocateClassPair", name)
             THEN [ok |-> FALSE, registry |-> reg,
                   calls |-> c1 \o <<Call("objc_allocateClassPair", name, 0)>>,
                   diags |-> <<"Failed to allocate class">>]
             ELSE LET c2 == c1 \o <<Call("objc_allocateClassPair", name, ClassHandle(name))>>
                      allocated == [reg EXCEPT ![name].allocated = TRUE]
                      inst == InstallMethods(ms, 1, {}, fail)
                  IN  IF ~inst.ok
                      THEN [ok |-> FALSE, registry |-> allocated,
                            calls |-> c2 \o inst.calls, diags |-> inst.diags]
                      ELSE [ok |-> TRUE,
                            registry |-> [allocated EXCEPT
                                            ![name].registered = TRUE,
                                            ![name].methods = inst.methods,
                                            ![name].regs = Once(@)],
                            calls |-> c2 \o inst.calls
                                        \o <<Call("objc_registerClassPair", name, 1)>>,
                            diags |-> <<"Created class">>]

\* alloc, init, then objc_setAssociatedObject of the window_ptr token.
\* An init that returns nil has released the object it was sent to.
Instantiate(w, cls, window_ptr, fail, calls, diags) ==
    IF Fails(fail, "sel_registerName", "alloc")
    THEN CtorOut(w, NULL, calls \o <<Call("sel_registerName", "alloc", 0)>>,
                 diags \o <<"alloc selector not found">>)
    ELSE IF Fails(fail, "objc_msgSend", "alloc")
    THEN CtorOut(w, NULL,
                 calls \o <<Call("sel_registerName", "alloc", 1),
                            Call("objc_msgSend", "alloc", 0)>>,
                 diags \o <<"Failed to allocate">>)
    ELSE LET obj == InstHandle(Len(w.instances) + 1)
             w1 == [w EXCEPT !.instances =
                        Append(@, [cls |-> cls, token |-> window_ptr])]
             c1 == calls \o <<Call("sel_registerName", "alloc", 1),
                              Call("objc_msgSend", "alloc", obj)>>
         IN  IF Fails(fail, "sel_registerName", "init")
             THEN CtorOut(w1, NULL, c1 \o <<Call("sel_registerName", "init", 0)>>,
                          diags \o <<"init selector not found">>)
             ELSE IF Fails(fail, "objc_msgSend", "init")
             THEN CtorOut(w, NULL,
                          c1 \o <<Call("sel_registerName", "init", 1),
                                  Call("objc_msgSend", "init", 0)>>,
                          diags \o <<"Failed to initialize">>)
             ELSE CtorOut([w1 EXCEPT !.assoc =
                              objc_setAssociatedObject(@, obj, window_ptr)],
                          obj,
                          c1 \o <<Call("sel_registerName", "init", 1),
                                  Call("objc_msgSend", "init", obj),
                                  Call("objc_setAssociatedObject", "windowPtr", window_ptr)>>,
                          diags \o <<"Created instance">>)

\* Lookup, then the creation path only when the lookup fails, then the
\* instance (createWindowDelegate and createTahoeView share this shape).
LookupOrCreate(w, name, base, ms, window_ptr, fail) ==
    LET cls == objc_getClass(w.registry, name)
        lookup == <<Call("objc_getClass", name, cls)>>
    IN  IF cls = NULL
        THEN LET made == SynthesizeClass(w.registry, name, base, ms, fail)
                 w1 == [w EXCEPT !.registry = made.registry]
             IN  IF ~made.ok
                 THEN CtorOut(w1, NULL, lookup \o made.calls, made.diags)
                 ELSE Instantiate(w1, name, window_ptr, fail,
                                  lookup \o made.calls, made.diags)
        ELSE Instantiate(w, name, window_ptr, fail, lookup, <<>>)

createWindowDelegate(w, window_ptr, fail) ==
    IF window_ptr = 0 THEN CtorOut(w, NULL, <<>>, <<"NULL window_ptr">>)
    ELSE LookupOrCreate(w, DelegateClass, "NSObject", DelegateMethods, window_ptr, fail)

\* A faulty constructor: the token is not checked.
ViewSkipsTokenCheck(w, window_ptr, fail) ==
    LookupOrCreate(w, ViewClass, "NSView", ViewMethods, window_ptr, fail)

createTahoeView(w, window_ptr, fail) ==
    IF window_ptr = 0 THEN CtorOut(w, NULL, <<>>, <<"NULL window_ptr">>)
    ELSE LookupOrCreate(w, ViewClass, "NSView", ViewMethods, window_ptr, fail)

\* A faulty range check: a zero interval passes.
InvalidIntervalNegativeOnly(interval) == interval < 0 \/ interval > IntervalOne

\* interval <= 0.0 || interval > 1.0, in tenths of a second.
InvalidInterval(interval) == interval <= 0 \/ interval > IntervalOne

\* The steps of createAnimationTimer after the target instance exists:
\* NSNumber userInfo, the tick method added to the (already registered)
\* class on every call, a NO from class_addMethod ignored, then the timer.
ScheduleTimer(o, window_ptr, interval, fail) ==
    LET w == o.world
        target == o.ret
        d0 == SubSeq(o.diags, 1, Len(o.diags) - 1)
    IN  IF Fails(fail, "objc_getClass", "NSNumber")
        THEN CtorOut(w, NULL, o.calls \o <<Call("objc_getClass", "NSNumber", 0)>>,
                     d0 \o <<"NSNumber class not found">>)
        ELSE IF Fails(fail, "sel_registerName", "numberWithUnsignedLongLong:")
        THEN CtorOut(w, NULL,
                     o.calls \o <<Call("sel_registerName", "numberWithUnsignedLongLong:", 0)>>,
                     d0 \o <<"numberWithUnsignedLongLong: selector not found">>)
        ELSE IF Fails(fail, "objc_msgSend", "numberWithUnsignedLongLong:")
        THEN CtorOut(w, NULL,
                     o.calls \o <<Call("objc_msgSend", "numberWithUnsignedLongLong:", 0)>>,
                     d0 \o <<"Failed to create NSNumber for userInfo">>)
        ELSE LET userInfo == window_ptr
                 c1 == o.calls \o <<Call("objc_msgSend", "numberWithUnsignedLongLong:", 1)>>
             IN  IF Fails(fail, "sel_registerName", "tahoeTimerTick:")
                 THEN CtorOut(w, NULL,
                              c1 \o <<Call("sel_registerName", "tahoeTimerTick:", 0)>>,
                              d0 \o <<"Failed to register tick selector">>)
                 ELSE LET add == class_addMethod(w.registry[TimerClass].methods,
                                                 "tahoeTimerTick:", fail)
                          w1 == [w EXCEPT !.registry[TimerClass].methods = add.methods]
                          c2 == c1 \o <<Call("sel_registerName", "tahoeTimerTick:", 1),
                                        Call("class_addMethod", "tahoeTimerTick:", add.added)>>
                          d2 == d0 \o (IF add.added = 0
                                       THEN <<"already exists or failed to add (continuing)">>
                                       ELSE <<"Added tahoeTimerTick: method">>)
                      IN  IF Fails(fail, "sel_registerName", "scheduledTimer")
                          THEN CtorOut(w1, NULL,
                                       c2 \o <<Call("sel_registerName", "scheduledTimer", 0)>>,
                                       d2 \o <<"scheduledTimer selector not found">>)
                          ELSE IF Fails(fail, "objc_getClass", "NSTimer")
                          THEN CtorOut(w1, NULL,
                                       c2 \o <<Call("objc_getClass", "NSTimer", 0)>>,
                                       d2 \o <<"NSTimer class not found">>)
                          ELSE IF Fails(fail, "objc_msgSend", "scheduledTimer")
                          THEN CtorOut(w1, NULL,
                                       c2 \o <<Call("objc_msgSend", "scheduledTimer", 0)>>,
                                       d2 \o <<"Failed to create NSTimer">>)
                          ELSE LET timer == TimerHandle(Len(w.timers) + 1)
                               IN  CtorOut([w1 EXCEPT !.timers = Append(@,
                                               [target |-> target,
                                                sel |-> "tahoeTimerTick:",
                                                userInfo |-> userInfo,
                                                fired |-> 0, ticks |-> 0])],
                                           timer,
                                           c2 \o <<Call("objc_msgSend", "scheduledTimer", timer)>>,
                                           d2 \o <<"Created NSTimer">>)

\* A faulty constructor: the target is returned and no timer is scheduled.
TimerReturnsTarget(w, window_ptr, interval, fail) ==
    IF window_ptr = 0 THEN CtorOut(w, NULL, <<>>, <<"NULL window_ptr">>)
    ELSE IF InvalidInterval(interval)
    THEN CtorOut(w, NULL, <<>>, <<"Invalid interval">>)
    ELSE LookupOrCreate(w, TimerClass, "NSObject", <<>>, window_ptr, fail)

\* A faulty order: the interval is checked after the target instance exists.
TimerChecksIntervalLate(w, window_ptr, interval, fail) ==
    IF window_ptr = 0 THEN CtorOut(w, NULL, <<>>, <<"NULL window_ptr">>)
    ELSE LET o == LookupOrCreate(w, TimerClass, "NSObject", <<>>, window_ptr, fail)
         IN  IF o.ret = NULL THEN o
             ELSE IF InvalidInterval(interval)
             THEN CtorOut(o.world, NULL, o.calls, <<"Invalid interval">>)
             ELSE ScheduleTimer(o, window_ptr, interval, fail)

createAnimationTimer(w, window_ptr, interval, fail) ==
    IF window_ptr = 0 THEN CtorOut(w, NULL, <<>>, <<"NULL window_ptr">>)
    ELSE IF InvalidInterval(interval)
    THEN CtorOut(w, NULL, <<>>, <<"Invalid interval">>)
    ELSE LET o == LookupOrCreate(w, TimerClass, "NSObject", <<>>, window_ptr, fail)
         IN  IF o.ret = NULL THEN o
             ELSE ScheduleTimer(o, window_ptr, interval, fail)

(***************************************************************************)
(* The image constructor.                                                  *)
(***************************************************************************)
\* The objects the runtime hands out for the bitmap rep and the image.
BitmapRepHandle == 24576
ImageHandle == 24592

\* A result of createNSImageFromCGImage: it touches neither the registry
\* nor the store.
ImageOut(ret, calls, diags) ==
    [ret |-> ret, rect |-> ZeroRect, calls |-> calls, derefs |-> <<>>,
     diags |-> diags, routed |-> <<>>]

\* A faulty image constructor: a bitmap rep that fails to initialize is
\* added to the image all the same.
ImageIgnoresRepInitFailure(cgImage, width, height, fail) ==
    IF cgImage = NULL THEN ImageOut(NULL, <<>>, <<"NULL cgImage">>)
    ELSE LET rep == IF Fails(fail, "objc_msgSend", "initWithCGImage:")
                    THEN 0 ELSE BitmapRepHandle
         IN  ImageOut(ImageHandle,
                      <<Call("objc_getClass", "NSBitmapImageRep", 1),
                        Call("sel_registerName", "alloc", 1),
                        Call("objc_msgSend", "NSBitmapImageRep alloc", BitmapRepHandle),
                        Call("sel_registerName", "initWithCGImage:", 1),
                        Call("objc_msgSend", "initWithCGImage:", rep),
                        Call("objc_getClass", "NSImage", 1),
                        Call("objc_msgSend", "NSImage alloc", ImageHandle),
                        Call("sel_registerName", "initWithSize:", 1),
                        Call("objc_msgSend", "initWithSize:", ImageHandle),
                        Call("sel_registerName", "addRepresentation:", 1),
                        Call("objc_msgSend", "addRepresentation:", 0)>>,
                      <<"Created NSImage">>)

\* createNSImageFromCGImage: NSBitmapImageRep alloc and initWithCGImage:,
\* NSImage alloc (with the alloc selector resolved for the bitmap rep) and
\* initWithSize:, then addRepresentation:, which returns nothing (recorded
\* as 0).  width and height are passed on unchecked.
createNSImageFromCGImage(cgImage, width, height, fail) ==
    IF cgImage = NULL THEN ImageOut(NULL, <<>>, <<"NULL cgImage">>)
    ELSE IF Fails(fail, "objc_getClass", "NSBitmapImageRep")
    THEN ImageOut(NULL, <<Call("objc_getClass", "NSBitmapImageRep", 0)>>,
                  <<"NSBitmapImageRep class not found">>)
    ELSE LET c1 == <<Call("objc_getClass", "NSBitmapImageRep", 1)>>
    IN  IF Fails(fail, "sel_registerName", "alloc")
    THEN ImageOut(NULL, c1 \o <<Call("sel_registerName", "alloc", 0)>>,
                  <<"alloc selector not found">>)
    ELSE IF Fails(fail, "objc_msgSend", "NSBitmapImageRep alloc")
    THEN ImageOut(NULL, c1 \o <<Call("sel_registerName", "alloc", 1),
                                Call("objc_msgSend", "NSBitmapImageRep alloc", 0)>>,
                  <<"NSBitmapImageRep alloc returned NULL">>)
    ELSE LET c2 == c1 \o <<Call("sel_registerName", "alloc", 1),
                           Call("objc_msgSend", "NSBitmapImageRep alloc", BitmapRepHandle)>>
    IN  IF Fails(fail, "sel_registerName", "initWithCGImage:")
    THEN ImageOut(NULL, c2 \o <<Call("sel_registerName", "initWithCGImage:", 0)>>,
                  <<"initWithCGImage: selector not found">>)
    ELSE IF Fails(fail, "objc_msgSend", "initWithCGImage:")
    THEN ImageOut(NULL, c2 \o <<Call("sel_registerName", "initWithCGImage:", 1),
                                Call("objc_msgSend", "initWithCGImage:", 0)>>,
                  <<"NSBitmapImageRep initWithCGImage: returned NULL">>)
    ELSE LET c3 == c2 \o <<Call("sel_registerName", "initWithCGImage:", 1),
                           Call("objc_msgSend", "initWithCGImage:", BitmapRepHandle)>>
    IN  IF Fails(fail, "objc_getClass", "NSImage")
    THEN ImageOut(NULL, c3 \o <<Call("objc_getClass", "NSImage", 0)>>,
                  <<"NSImage class not found">>)
    ELSE IF Fails(fail, "objc_msgSend", "NSImage alloc")
    THEN ImageOut(NULL, c3 \o <<Call("objc_getClass", "NSImage", 1),
                                Call("objc_msgSend", "NSImage alloc", 0)>>,
                  <<"NSImage alloc returned NULL">>)
    ELSE LET c4 == c3 \o <<Call("objc_getClass", "NSImage", 1),
                           Call("objc_msgSend", "NSImage alloc", ImageHandle)>>
    IN  IF Fails(fail, "sel_registerName", "initWithSize:")
    THEN ImageOut(NULL, c4 \o <<Call("sel_registerName", "initWithSize:", 0)>>,
                  <<"initWithSize: selector not found">>)
    ELSE IF Fails(fail, "objc_msgSend", "initWithSize:")
    THEN ImageOut(NULL, c4 \o <<Call("sel_registerName", "initWithSize:", 1),
                                Call("objc_msgSend", "initWithSize:", 0)>>,
                  <<"NSImage initWithSize: returned NULL">>)
    ELSE LET c5 == c4 \o <<Call("sel_registerName", "initWithSize:", 1),
                           Call("objc_msgSend", "initWithSize:", ImageHandle)>>
    IN  IF Fails(fail, "sel_registerName", "addRepresentation:")
    THEN ImageOut(NULL, c5 \o <<Call("sel_registerName", "addRepresentation:", 0)>>,
                  <<"addRepresentation: selector not found">>)
    ELSE ImageOut(ImageHandle,
                  c5 \o <<Call("sel_registerName", "addRepresentation:", 1),
                          Call("objc_msgSend", "addRepresentation:", 0)>>,
                  <<"Created NSImage">>)

(***************************************************************************)
(* Event extraction and routing.                                           *)
(***************************************************************************)
\* A callback result: callbacks return nothing and leave the world alone.
CbOut(calls, diags, routed) ==
    [ret |-> NULL, rect |-> ZeroRect, calls |-> calls, derefs |-> <<>>,
     diags |-> diags, routed |-> routed]

\* A faulty conversion: the upper 32 bits are kept.
KeepsUpperBits(v) == v

\* (uint32_t) of an unsigned long: the upper 32 bits are dropped.
ToUInt32(v) == <<0, 0, v[3], v[4]>>

\* A faulty normalization: negative ordinals pass through.
ClampButtonUpperOnly(button_num) == IF button_num > 2 THEN 3 ELSE button_num

\* (button_num < 0 || button_num > 2) ? 3 : (uint32_t)button_num
ClampButton(button_num) ==
    IF button_num < 0 \/ button_num > 2 THEN 3 ELSE button_num

\* (uint32_t)utf8[0], utf8[0] a char (signed on the macOS targets).
\* A byte b >= 0x80 is negative as a char and converts to 0xFFFFFF00 + b.
FirstChar(b) == IF b >= 128 THEN <<0, 0, 65535, 65280 + b>> ELSE W(b)

\* A faulty read: a default token when none is stored.
ReadTokenOrDefault(store, self) == IF self \in DOMAIN store THEN store[self] ELSE 1

\* The token read back in a callback: objc_getAssociatedObject, then the
\* NULL check and the == 0 check of the value cast to uintptr_t.
ReadToken(store, self) == objc_getAssociatedObject(store, self)

routeMouseEvent(window_ptr, kind, button, x, y, modifiers) ==
    [router |-> "routeMouseEvent", window_ptr |-> window_ptr, kind |-> kind,
     button |-> button, x |-> x, y |-> y, modifiers |-> modifiers]

routeKeyboardEvent(window_ptr, kind, key_code, character, modifiers) ==
    [router |-> "routeKeyboardEvent", window_ptr |-> window_ptr, kind |-> kind,
     key_code |-> key_code, character |-> character, modifiers |-> modifiers]

routeFocusEvent(window_ptr, kind) ==
    [router |-> "routeFocusEvent", window_ptr |-> window_ptr, kind |-> kind]

routeTickCallback(window_ptr) ==
    [router |-> "routeTickCallback", window_ptr |-> window_ptr]

routeWindowDidResize(window_ptr, new_width, new_height) ==
    [router |-> "routeWindowDidResize", window_ptr |-> window_ptr,
     new_width |-> new_width, new_height |-> new_height]

\* A faulty size: the window's own frame, border and title bar included.
WindowFrameAsContent(note) == note.frame

\* content_frame: what [content_view frame] answers.
ContentFrame(note) == note.contentFrame

\* A faulty resize callback: a NULL content view is not refused.
ResizeSkipsContentViewCheck(w, self, notification, note, fail) ==
    IF self = NULL \/ notification = NULL
    THEN CbOut(<<>>, <<"NULL self or notification">>, <<>>)
    ELSE LET window_ptr == ReadToken(w.assoc, self)
             c0 == <<Call("objc_getAssociatedObject", "windowPtr", window_ptr)>>
         IN  IF window_ptr = NULL
             THEN CbOut(c0, <<"window_ptr not found in associated objects">>, <<>>)
             ELSE IF Fails(fail, "sel_registerName", "object")
             THEN CbOut(c0 \o <<Call("sel_registerName", "object", 0)>>,
                        <<"object selector not found">>, <<>>)
             ELSE LET ns_window == note.window
                      c1 == c0 \o <<Call("objc_msgSend", "object", ns_window)>>
                  IN  IF ns_window = NULL
                      THEN CbOut(c1, <<"NSWindow from notification is NULL">>, <<>>)
                      ELSE IF Fails(fail, "sel_registerName", "frame")
                      THEN CbOut(c1 \o <<Call("sel_registerName", "frame", 0)>>,
                                 <<"frame selector not found">>, <<>>)
                      ELSE LET frame == note.frame
                               c2 == c1 \o <<Call("objc_msgSend", "frame", 1)>>
                           IN  IF Fails(fail, "sel_registerName", "contentView")
                               THEN CbOut(c2 \o <<Call("sel_registerName", "contentView", 0)>>,
                                          <<"contentView selector not found">>, <<>>)
                               ELSE LET content_view == note.contentView
                                        c3 == c2 \o <<Call("objc_msgSend", "contentView",
                                                           content_view)>>
                                    IN  IF FALSE
                                        THEN CbOut(c3, <<"contentView is NULL">>, <<>>)
                                        ELSE LET content_frame == ContentFrame(note)
                                             IN  CbOut(c3 \o <<Call("objc_msgSend", "frame", 1)>>,
                                                       <<>>,
                                                       <<routeWindowDidResize(window_ptr,
                                                            content_frame.w, content_frame.h)>>)

\* note: what the notification holds, [window, frame, contentView, contentFrame].
windowDidResizeImpl(w, self, notification, note, fail) ==
    IF self = NULL \/ notification = NULL
    THEN CbOut(<<>>, <<"NULL self or notification">>, <<>>)
    ELSE LET window_ptr == ReadToken(w.assoc, self)
             c0 == <<Call("objc_getAssociatedObject", "windowPtr", window_ptr)>>
         IN  IF window_ptr = NULL
             THEN CbOut(c0, <<"window_ptr not found in associated objects">>, <<>>)
             ELSE IF Fails(fail, "sel_registerName", "object")
             THEN CbOut(c0 \o <<Call("sel_registerName", "object", 0)>>,
                        <<"object selector not found">>, <<>>)
             ELSE LET ns_window == note.window
                      c1 == c0 \o <<Call("objc_msgSend", "object", ns_window)>>
                  IN  IF ns_window = NULL
                      THEN CbOut(c1, <<"NSWindow from notification is NULL">>, <<>>)
                      ELSE IF Fails(fail, "sel_registerName", "frame")
                      THEN CbOut(c1 \o <<Call("sel_registerName", "frame", 0)>>,
                                 <<"frame selector not found">>, <<>>)
                      ELSE LET frame == note.frame
                               c2 == c1 \o <<Call("objc_msgSend", "frame", 1)>>
                           IN  IF Fails(fail, "sel_registerName", "contentView")
                               THEN CbOut(c2 \o <<Call("sel_registerName", "contentView", 0)>>,
                                          <<"contentView selector not found">>, <<>>)
                               ELSE LET content_view == note.contentView
                                        c3 == c2 \o <<Call("objc_msgSend", "contentView",
                                                           content_view)>>
                                    IN  IF content_view = NULL
                                        THEN CbOut(c3, <<"contentView is NULL">>, <<>>)
                                        ELSE LET content_frame == ContentFrame(note)
                                             IN  CbOut(c3 \o <<Call("objc_msgSend", "frame", 1)>>,
                                                       <<>>,
                                                       <<routeWindowDidResize(window_ptr,
                                                            content_frame.w, content_frame.h)>>)

\* windowDidBecomeKeyImpl (kind 0) and windowDidResignKeyImpl (kind 1):
\* the notification is not looked at.
FocusCallback(w, self, notification, kind) ==
    IF self = NULL THEN CbOut(<<>>, <<"NULL self">>, <<>>)
    ELSE LET window_ptr == ReadToken(w.assoc, self)
             c0 == <<Call("objc_getAssociatedObject", "windowPtr", window_ptr)>>
         IN  IF window_ptr = NULL
             THEN CbOut(c0, <<"window_ptr not found">>, <<>>)
             ELSE CbOut(c0, <<>>, <<routeFocusEvent(window_ptr, kind)>>)

windowDidBecomeKeyImpl(w, self, notification) == FocusCallback(w, self, notification, 0)

\* A faulty focus-lost callback: it reports focus gained.
ResignRoutesGained(w, self, notification) == FocusCallback(w, self, notification, 0)

windowDidResignKeyImpl(w, self, notification) == FocusCallback(w, self, notification, 1)

\* A faulty read of the tick's token: from the store, keyed by the timer.
TimerUserInfoFromStore(w, timer) == objc_getAssociatedObject(w.assoc, timer)

\* The timer's userInfo object: the NSNumber it was scheduled with.
TimerUserInfo(w, timer) ==
    IF TimerIndex(timer) \in DOMAIN w.timers THEN w.timers[TimerIndex(timer)].userInfo
    ELSE NULL

tahoeTimerTickImpl(w, self, timer, fail) ==
    IF self = NULL \/ timer = NULL
    THEN CbOut(<<>>, <<"NULL self or timer">>, <<>>)
    ELSE IF Fails(fail, "sel_registerName", "userInfo")
    THEN CbOut(<<Call("sel_registerName", "userInfo", 0)>>,
               <<"userInfo selector not found">>, <<>>)
    ELSE LET userInfo == IF TimerIndex(timer) \in DOMAIN w.timers THEN 1 ELSE NULL
             c0 == <<Call("objc_msgSend", "userInfo", userInfo)>>
         IN  IF userInfo = NULL
             THEN CbOut(c0, <<"Timer userInfo is NULL">>, <<>>)
             ELSE IF Fails(fail, "sel_registerName", "unsignedLongLongValue")
             THEN CbOut(c0 \o <<Call("sel_registerName", "unsignedLongLongValue", 0)>>,
                        <<"unsignedLongLongValue selector not found">>, <<>>)
             ELSE LET window_ptr == TimerUserInfo(w, timer)
                      c1 == c0 \o <<Call("objc_msgSend", "unsignedLongLongValue", window_ptr)>>
                  IN  IF window_ptr = 0
                      THEN CbOut(c1, <<"window_ptr is 0">>, <<>>)
                      ELSE CbOut(c1, <<>>, <<routeTickCallback(window_ptr)>>)

\* The four pointer callbacks: ev is what the NSEvent holds,
\* [x, y, buttonNumber, modifierFlags]; mouseMoved reads no button.
PointerCallback(w, self, event, ev, fail, kind, readsButton) ==
    IF self = NULL \/ event = NULL
    THEN CbOut(<<>>, <<"NULL self or event">>, <<>>)
    ELSE LET window_ptr == ReadToken(w.assoc, self)
             c0 == <<Call("objc_getAssociatedObject", "windowPtr", window_ptr)>>
         IN  IF window_ptr = NULL
             THEN CbOut(c0, <<"window_ptr not found">>, <<>>)
             ELSE IF Fails(fail, "sel_registerName", "locationInWindow")
             THEN CbOut(c0 \o <<Call("sel_registerName", "locationInWindow", 0)>>,
                        <<"locationInWindow selector not found">>, <<>>)
             ELSE LET c1 == c0 \o <<Call("objc_msgSend", "locationInWindow", 1)>>
                  IN  IF readsButton /\ Fails(fail, "sel_registerName", "buttonNumber")
                      THEN CbOut(c1 \o <<Call("sel_registerName", "buttonNumber", 0)>>,
                                 <<"buttonNumber selector not found">>, <<>>)
                      ELSE LET button == IF readsButton THEN ClampButton(ev.buttonNumber)
                                         ELSE 0
                               c2 == IF readsButton
                                     THEN c1 \o <<Call("objc_msgSend", "buttonNumber",
                                                       ev.buttonNumber)>>
                                     ELSE c1
                           IN  IF Fails(fail, "sel_registerName", "modifierFlags")
                               THEN CbOut(c2 \o <<Call("sel_registerName", "modifierFlags", 0)>>,
                                          <<"modifierFlags selector not found">>, <<>>)
                               ELSE CbOut(c2 \o <<Call("objc_msgSend", "modifierFlags", 1)>>,
                                          <<>>,
                                          <<routeMouseEvent(window_ptr, kind, button,
                                                ev.x, ev.y, ToUInt32(ev.modifierFlags))>>)

tahoeViewMouseDownImpl(w, self, event, ev, fail) ==
    PointerCallback(w, self, event, ev, fail, 0, TRUE)

tahoeViewMouseUpImpl(w, self, event, ev, fail) ==
    PointerCallback(w, self, event, ev, fail, 1, TRUE)

tahoeViewMouseDraggedImpl(w, self, event, ev, fail) ==
    PointerCallback(w, self, event, ev, fail, 3, TRUE)

tahoeViewMouseMovedImpl(w, self, event, ev, fail) ==
    PointerCallback(w, self, event, ev, fail, 2, FALSE)

\* The two key callbacks: ev is [keyCode, characters, utf8, modifierFlags],
\* characters the NSString handle (or NULL), utf8 its bytes.
KeyCallback(w, self, event, ev, fail, kind) ==
    IF self = NULL \/ event = NULL
    THEN CbOut(<<>>, <<"NULL self or event">>, <<>>)
    ELSE LET window_ptr == ReadToken(w.assoc, self)
             c0 == <<Call("objc_getAssociatedObject", "windowPtr", window_ptr)>>
         IN  IF window_ptr = NULL
             THEN CbOut(c0, <<"window_ptr not found">>, <<>>)
             ELSE IF Fails(fail, "sel_registerName", "keyCode")
             THEN CbOut(c0 \o <<Call("sel_registerName", "keyCode", 0)>>,
                        <<"keyCode selector not found">>, <<>>)
             ELSE LET key_code == ev.keyCode
                      c1 == c0 \o <<Call("objc_msgSend", "keyCode", key_code)>>
                  IN  IF Fails(fail, "sel_registerName", "characters")
                      THEN CbOut(c1 \o <<Call("sel_registerName", "characters", 0)>>,
                                 <<"characters selector not found">>, <<>>)
                      ELSE LET characters_str == ev.characters
                               c2 == c1 \o <<Call("objc_msgSend", "characters", characters_str)>>
                               noUtf8 == Fails(fail, "sel_registerName", "UTF8String")
                               character ==
                                   IF characters_str # NULL /\ ~noUtf8 /\ Len(ev.utf8) > 0
                                   THEN FirstChar(ev.utf8[1])
                                   ELSE W(0)
                               c3 == IF characters_str = NULL THEN c2
                                     ELSE IF noUtf8
                                     THEN c2 \o <<Call("sel_registerName", "UTF8String", 0)>>
                                     ELSE c2 \o <<Call("objc_msgSend", "UTF8String", 1)>>
                           IN  IF Fails(fail, "sel_registerName", "modifierFlags")
                               THEN CbOut(c3 \o <<Call("sel_registerName", "modifierFlags", 0)>>,
                                          <<"modifierFlags selector not found">>, <<>>)
                               ELSE CbOut(c3 \o <<Call("objc_msgSend", "modifierFlags", 1)>>,
                                          <<>>,
                                          <<routeKeyboardEvent(window_ptr, kind, key_code,
                                                character, ToUInt32(ev.modifierFlags))>>)

tahoeViewKeyDownImpl(w, self, event, ev, fail) == KeyCallback(w, self, event, ev, fail, 0)

tahoeViewKeyUpImpl(w, self, event, ev, fail) == KeyCallback(w, self, event, ev, fail, 1)

\* A faulty query: YES even for a NULL self.
AcceptsAlwaysYes(self) == [CbOut(<<>>, <<>>, <<>>) EXCEPT !.ret = 1]

\* Returns YES (1) unless self is NULL.
tahoeViewAcceptsFirstResponderImpl(self) ==
    IF self = NULL THEN [CbOut(<<>>, <<"NULL self">>, <<>>) EXCEPT !.ret = 0]
    ELSE [CbOut(<<>>, <<>>, <<>>) EXCEPT !.ret = 1]

(***************************************************************************)
(* Inputs of the constructors and of the callbacks.  An input is a tuple   *)
(* of the arguments and of the runtime call the environment lets fail.     *)
(***************************************************************************)
InstanceFails ==
    {<<"sel_registerName", "alloc">>, <<"objc_msgSend", "alloc">>,
     <<"sel_registerName", "init">>, <<"objc_msgSend", "init">>}

InstallFails(ms) ==
    {<<"sel_registerName", ms[i]>> : i \in DOMAIN ms}
        \cup {<<"class_addMethod", ms[i]>> : i \in DOMAIN ms}

DelegateFails ==
    {NoFail, <<"objc_getClass", "NSObject">>, <<"objc_allocateClassPair", DelegateClass>>}
        \cup InstallFails(DelegateMethods) \cup InstanceFails

ViewFails ==
    {NoFail, <<"objc_getClass", "NSView">>, <<"objc_allocateClassPair", ViewClass>>}
        \cup InstallFails(ViewMethods) \cup InstanceFails

TimerFails ==
    {NoFail, <<"objc_getClass", "NSObject">>, <<"objc_allocateClassPair", TimerClass>>,
     <<"objc_getClass", "NSNumber">>,
     <<"sel_registerName", "numberWithUnsignedLongLong:">>,
     <<"objc_msgSend", "numberWithUnsignedLongLong:">>,
     <<"sel_registerName", "scheduledTimer">>, <<"objc_getClass", "NSTimer">>,
     <<"objc_msgSend", "scheduledTimer">>}
        \cup InstallFails(TimerMethods) \cup InstanceFails

\* The runtime steps of createNSImageFromCGImage that can return NULL.
ImageFails ==
    {NoFail, <<"objc_getClass", "NSBitmapImageRep">>, <<"sel_registerName", "alloc">>,
     <<"objc_msgSend", "NSBitmapImageRep alloc">>,
     <<"sel_registerName", "initWithCGImage:">>, <<"objc_msgSend", "initWithCGImage:">>,
     <<"objc_getClass", "NSImage">>, <<"objc_msgSend", "NSImage alloc">>,
     <<"sel_registerName", "initWithSize:">>, <<"objc_msgSend", "initWithSize:">>,
     <<"sel_registerName", "addRepresentation:">>}

\* <<cgImage, <<width, height>>, fail>>: a NULL source, valid, sub-floor and
\* misaligned sources, sizes that no check looks at, every failing step.
ImageInputs ==
    {<<0, (<<800, 600>>), NoFail>>}
        \cup {<<c, d, f>> : c \in {8, 4096, 4100, 4104},
                            d \in {<<0, 0>>, <<800, 600>>, <<-1, 20000>>},
                            f \in ImageFails}

\* <<window_ptr, fail>>: the zero token, two tokens, every failing step.
DelegateInputs == {<<0, NoFail>>, <<42, NoFail>>} \cup {<<7, f>> : f \in DelegateFails}
ViewInputs == {<<0, NoFail>>, <<42, NoFail>>} \cup {<<7, f>> : f \in ViewFails}

\* <<window_ptr, interval, fail>>, the interval in tenths of a second:
\* -0.1, 0.0, 1.1 and 1.5 are refused, 0.5 and 1.0 accepted.
TimerInputs ==
    {<<0, 5, NoFail>>, <<7, -1, NoFail>>, <<7, 0, NoFail>>, <<7, 11, NoFail>>,
     <<7, 15, NoFail>>, <<42, 10, NoFail>>, <<42, 5, NoFail>>}
        \cup {<<7, 5, f>> : f \in TimerFails}

EventHandle == 16384 + 64
NotificationHandle == 16384 + 128
WindowHandle == 16384 + 192
ContentViewHandle == 16384 + 256
StringHandle == 16384 + 320

\* <<x, y, buttonNumber, modifierFlags>> of a pointer NSEvent.
PointerSamples ==
    {<<3, 4, b, (<<0, 0, 0, 0>>)>> : b \in {-1, 0, 1, 2, 3}}
        \cup {<<640, 480, 7, (<<0, 1, 0, 5>>)>>}
PointerEvent(t) == [x |-> t[1], y |-> t[2], buttonNumber |-> t[3], modifierFlags |-> t[4]]

\* <<keyCode, characters, utf8, modifierFlags>> of a key NSEvent.
KeySamples ==
    {<<36, StringHandle, (<<13>>), (<<0, 0, 0, 0>>)>>,
     <<36, NULL, (<<>>), (<<0, 0, 0, 0>>)>>,
     <<0, StringHandle, (<<>>), (<<0, 0, 0, 0>>)>>,
     <<65535, StringHandle, (<<200, 128>>), (<<0, 1, 0, 5>>)>>,
     <<36, StringHandle, (<<195, 169>>), (<<0, 0, 2, 0>>)>>}
KeyEvent(t) == [keyCode |-> t[1], characters |-> t[2], utf8 |-> t[3], modifierFlags |-> t[4]]

\* <<window, contentView, content size>> of a resize notification; the
\* window's own frame is the content size plus its border and title bar.
ResizeSamples ==
    {<<win, cv, (<<800, 600>>)>> :
        win \in {NULL, WindowHandle}, cv \in {NULL, ContentViewHandle}}
        \cup {<<WindowHandle, ContentViewHandle, (<<1024, 768>>)>>}
ResizeNote(t) ==
    [window |-> t[1],
     frame |-> [x |-> 0, y |-> 0, w |-> t[3][1] + 10, h |-> t[3][2] + 40],
     contentView |-> t[2],
     contentFrame |-> [x |-> 0, y |-> 0, w |-> t[3][1], h |-> t[3][2]]]

PointerFails ==
    {<<"sel_registerName", "locationInWindow">>,
     <<"sel_registerName", "buttonNumber">>, <<"sel_registerName", "modifierFlags">>}

KeyFails ==
    {<<"sel_registerName", "keyCode">>, <<"sel_registerName", "characters">>,
     <<"sel_registerName", "UTF8String">>, <<"sel_registerName", "modifierFlags">>}

ResizeFails ==
    {<<"sel_registerName", "object">>, <<"sel_registerName", "frame">>,
     <<"sel_registerName", "contentView">>}

TickFails ==
    {NoFail, <<"sel_registerName", "userInfo">>,
     <<"sel_registerName", "unsignedLongLongValue">>}

\* <<event, sample, fail>>: a NULL event, every sample, every failing step.
PlainPointer == <<3, 4, 1, (<<0, 0, 0, 0>>)>>
PointerInputs ==
    {<<NULL, PlainPointer, NoFail>>}
        \cup {<<EventHandle, t, NoFail>> : t \in PointerSamples}
        \cup {<<EventHandle, PlainPointer, f>> : f \in PointerFails}

PlainKey == <<36, StringHandle, (<<13>>), (<<0, 0, 0, 0>>)>>
KeyInputs ==
    {<<NULL, PlainKey, NoFail>>}
        \cup {<<EventHandle, t, NoFail>> : t \in KeySamples}
        \cup {<<EventHandle, PlainKey, f>> : f \in KeyFails}

\* <<notification, sample, fail>>
PlainResize == <<WindowHandle, ContentViewHandle, (<<800, 600>>)>>
ResizeInputs ==
    {<<NULL, PlainResize, NoFail>>}
        \cup {<<NotificationHandle, t, NoFail>> : t \in ResizeSamples}
        \cup {<<NotificationHandle, PlainResize, f>> : f \in ResizeFails}

\* The notification argument of a focus callback: absent, a notification,
\* and a handle that is not 8-byte aligned.
FocusNotifications == {NULL, NotificationHandle, NotificationHandle + 4}

\* A NULL self is tried with one input only: the plain event, nothing failing.
NullSelfInput(self, in, handle, plain) ==
    self = NULL => in = <<handle, plain, NoFail>>

\* The receivers the host can deliver a callback of class cls to, and NULL.
Selves(cls) ==
    {NULL} \cup {InstHandle(i) : i \in {j \in DOMAIN instances : instances[j].cls = cls}}

ClassOf(self) == instances[InstIndex(self)].cls

\* The threads that may be inside a constructor at the same time.
Threads == {1, 2}

\* Message dispatch: the runtime finds method m in the receiver's class
\* object.  That is the class its name resolves to, unless the receiver was
\* made by a thread from a pair it registered when the name was taken: a
\* second class object of the same name with methods of its own.
Responds(self, m) ==
    IF \E t \in Threads : threads[t].own /\ threads[t].obj = self
    THEN \E t \in Threads :
            threads[t].own /\ threads[t].obj = self /\ m \in threads[t].methods
    ELSE m \in registry[ClassOf(self)].methods

(***************************************************************************)
(* Initial state and actions.                                              *)
(***************************************************************************)
\* The constructors of the lookup-or-create shape, with the class each
\* creates, its base class and the callbacks installed before registration
\* (none for the timer target: its tick method is added after it).
ThreadCtors == {"createWindowDelegate", "createAnimationTimer", "createTahoeView"}

CtorClass(op) ==
    IF op = "createWindowDelegate" THEN DelegateClass
    ELSE IF op = "createAnimationTimer" THEN TimerClass
    ELSE ViewClass

CtorBase(op) == IF op = "createTahoeView" THEN "NSView" ELSE "NSObject"

CtorMethods(op) ==
    IF op = "createWindowDelegate" THEN DelegateMethods
    ELSE IF op = "createAnimationTimer" THEN <<>>
    ELSE ViewMethods

\* A thread outside any constructor call.  Inside one it holds the call
\* (op, token, interval), its position pc, the classes its lookup and its
\* allocation returned, how often the name was registered when it
\* allocated, whether it has called objc_registerClassPair, the methods of
\* its pair while the pair is its own (before the registration, and for
\* good when the name was taken by then: own), the object its alloc
\* returned while that object lives, the runtime calls it has made and the
\* lines it has written; once it has returned, the value returned.
IdleThread ==
    [pc |-> "idle", op |-> "none", token |-> 0, interval |-> 0, found |-> NULL,
     pair |-> NULL, regsAtAlloc |-> 0, registered |-> FALSE, methods |-> {},
     own |-> FALSE, obj |-> NULL, ret |-> NULL, calls |-> <<>>, diags |-> <<>>]

\* The thread th after some more runtime calls: at pc, having returned ret
\* when pc is "done".
Advance(th, pc, ret, calls, diags) ==
    [th EXCEPT !.pc = pc, !.ret = ret, !.calls = @ \o calls, !.diags = @ \o diags]

\* The record of the call a thread has returned from.
ThreadOp(th) ==
    [op |-> th.op,
     args |-> IF th.op = "createAnimationTimer"
              THEN [window_ptr |-> th.token, interval |-> th.interval]
              ELSE [window_ptr |-> th.token],
     ret |-> th.ret, rect |-> ZeroRect, calls |-> th.calls, derefs |-> <<>>,
     diags |-> th.diags, routed |-> <<>>]

NoOp ==
    [op |-> "none", args |-> <<>>, ret |-> NULL, rect |-> ZeroRect, calls |-> <<>>,
     derefs |-> <<>>, diags |-> <<>>, routed |-> <<>>]

Init ==
    /\ registry = [c \in Classes |->
                      [allocated |-> FALSE, registered |-> FALSE, methods |-> {},
                       regs |-> 0, dup |-> FALSE]]
    /\ instances = <<>>
    /\ assoc = <<>>
    /\ timers = <<>>
    /\ last = NoOp
    /\ threads = [t \in Threads |-> IdleThread]

\* A gateway call and a callback leave the world alone; a constructor call
\* makes the world the one the constructor leaves, and is taken only while
\* the instances stay within MaxInst.
WrapperString ==
    \E r \in AddrSamples, s \in SelSamples, u \in ArgAddrSamples, f \in ForeignResults :
        /\ last' = Op("objc_msgSend_wrapper_string",
                [receiver |-> r, selector |-> s, utf8_string |-> u],
                objc_msgSend_wrapper_string(r, s, u, f))
        /\ UNCHANGED <<registry, instances, assoc, timers, threads>>

Wrapper ==
    \E r \in AddrSamples, s \in SelSamples, isa \in IsaSamples, f \in ForeignResults :
        /\ last' = Op("objc_msgSend_wrapper", [receiver |-> r, selector |-> s],
                objc_msgSend_wrapper(r, s, isa, f))
        /\ UNCHANGED <<registry, instances, assoc, timers, threads>>

WrapperRect ==
    \E r \in AddrSamples, s \in SelSamples, p \in ArgAddrSamples, d \in DimSamples,
       f \in ForeignResults :
        /\ last' = Op("objc_msgSend_wrapper_rect",
                [receiver |-> r, selector |-> s, rect_ptr |-> p, rect |-> RectAt(d)],
                objc_msgSend_wrapper_rect(r, s, p, RectAt(d), f))
        /\ UNCHANGED <<registry, instances, assoc, timers, threads>>

Wrapper4 ==
    \E r \in ArgAddrSamples, s \in SelSamples, p \in ArgAddrSamples, d \in DimSamples,
       a \in ScalarPairs, a4 \in BoolSamples, f \in ForeignResults :
        /\ last' = Op("objc_msgSend_wrapper_4",
                [receiver |-> r, selector |-> s, rect_ptr |-> p, rect |-> RectAt(d),
                 arg2 |-> a[1], arg3 |-> a[2], arg4 |-> a4],
                objc_msgSend_wrapper_4(r, s, p, RectAt(d), a[1], a[2], a4, f))
        /\ UNCHANGED <<registry, instances, assoc, timers, threads>>

Void1 ==
    \E r \in AddrSamples, s \in SelSamples, a \in ArgAddrSamples :
        /\ last' = Op("objc_msgSend_void_1", [receiver |-> r, selector |-> s, arg1 |-> a],
                objc_msgSend_void_1(r, s, a))
        /\ UNCHANGED <<registry, instances, assoc, timers, threads>>

Void0 ==
    \E r \in AddrSamples, s \in SelSamples :
        /\ last' = Op("objc_msgSend_void_0", [receiver |-> r, selector |-> s],
                objc_msgSend_void_0(r, s))
        /\ UNCHANGED <<registry, instances, assoc, timers, threads>>

Void1Bool ==
    \E r \in AddrSamples, s \in SelSamples, a \in BoolSamples :
        /\ last' = Op("objc_msgSend_void_1_bool", [receiver |-> r, selector |-> s, arg1 |-> a],
                objc_msgSend_void_1_bool(r, s, a))
        /\ UNCHANGED <<registry, instances, assoc, timers, threads>>

Wrapper1UInt ==
    \E r \in AddrSamples, s \in SelSamples, i \in ScalarSamples, f \in ForeignResults :
        /\ last' = Op("objc_msgSend_wrapper_1_uint", [receiver |-> r, selector |-> s, index |-> i],
                objc_msgSend_wrapper_1_uint(r, s, i, f))
        /\ UNCHANGED <<registry, instances, assoc, timers, threads>>

ReturnsNSRect ==
    \E r \in AddrSamples, s \in SelSamples, d \in ForeignDims :
        /\ last' = Op("objc_msgSend_returns_NSRect", [receiver |-> r, selector |-> s],
                objc_msgSend_returns_NSRect(r, s, FrameOf(d)))
        /\ UNCHANGED <<registry, instances, assoc, timers, threads>>

CreateNSImage ==
    \E in \in ImageInputs :
        /\ last' = Op("createNSImageFromCGImage",
                      [cgImage |-> in[1], width |-> in[2][1], height |-> in[2][2]],
                      createNSImageFromCGImage(in[1], in[2][1], in[2][2], in[3]))
        /\ UNCHANGED <<registry, instances, assoc, timers, threads>>

CreateWindowDelegate ==
    \E in \in DelegateInputs :
        LET out == createWindowDelegate(World, in[1], in[2])
        IN  /\ Len(out.world.instances) <= MaxInst
            /\ last' = Op("createWindowDelegate", [window_ptr |-> in[1]], out)
            /\ registry' = out.world.registry
            /\ instances' = out.world.instances
            /\ assoc' = out.world.assoc
            /\ timers' = out.world.timers
            /\ UNCHANGED threads

CreateAnimationTimer ==
    \E in \in TimerInputs :
        LET out == createAnimationTimer(World, in[1], in[2], in[3])
        IN  /\ Len(out.world.instances) <= MaxInst
            /\ last' = Op("createAnimationTimer",
                          [window_ptr |-> in[1], interval |-> in[2]], out)
            /\ registry' = out.world.registry
            /\ instances' = out.world.instances
            /\ assoc' = out.world.assoc
            /\ timers' = out.world.timers
            /\ UNCHANGED threads

CreateTahoeView ==
    \E in \in ViewInputs :
        LET out == createTahoeView(World, in[1], in[2])
        IN  /\ Len(out.world.instances) <= MaxInst
            /\ last' = Op("createTahoeView", [window_ptr |-> in[1]], out)
            /\ registry' = out.world.registry
            /\ instances' = out.world.instances
            /\ assoc' = out.world.assoc
            /\ timers' = out.world.timers
            /\ UNCHANGED threads

WindowDidResize ==
    \E self \in Selves(DelegateClass), in \in ResizeInputs :
        /\ self # NULL => Responds(self, "windowDidResize:")
        /\ NullSelfInput(self, in, NotificationHandle, PlainResize)
        /\ last' = Op("windowDidResizeImpl",
                    [self |-> self, notification |-> in[1], note |-> ResizeNote(in[2])],
                    windowDidResizeImpl(World, self, in[1], ResizeNote(in[2]), in[3]))
        /\ UNCHANGED <<registry, instances, assoc, timers, threads>>

WindowDidBecomeKey ==
    \E self \in Selves(DelegateClass), n \in FocusNotifications :
        /\ self # NULL => Responds(self, "windowDidBecomeKey:")
        /\ last' = Op("windowDidBecomeKeyImpl", [self |-> self, notification |-> n],
                    windowDidBecomeKeyImpl(World, self, n))
        /\ UNCHANGED <<registry, instances, assoc, timers, threads>>

WindowDidResignKey ==
    \E self \in Selves(DelegateClass), n \in FocusNotifications :
        /\ self # NULL => Responds(self, "windowDidResignKey:")
        /\ last' = Op("windowDidResignKeyImpl", [self |-> self, notification |-> n],
                    windowDidResignKeyImpl(World, self, n))
        /\ UNCHANGED <<registry, instances, assoc, timers, threads>>

\* The run loop fires scheduled timer k: the timer sends its selector to its
\* target with itself as the argument.  A target whose class lacks the
\* method does not recognize the selector and no callback runs.  The
\* callback is also entered with a NULL self or a NULL timer.  fired
\* counts the firings that reach the callback with both.
TimerFire ==
    \E k \in DOMAIN timers :
        LET t == timers[k]
        IN  IF ~Responds(t.target, t.sel)
            THEN /\ last' = Op("doesNotRecognizeSelector",
                          [self |-> t.target, timer |-> TimerHandle(k)],
                          CbOut(<<>>, <<>>, <<>>))
                 /\ UNCHANGED <<registry, instances, assoc, timers, threads>>
            ELSE \E self \in {NULL, t.target}, timer \in {NULL, TimerHandle(k)},
                    fail \in TickFails :
                    LET out == tahoeTimerTickImpl(World, self, timer, fail)
                        delivered == self # NULL /\ timer # NULL /\ fail = NoFail
                    IN  /\ (self = NULL \/ timer = NULL) => fail = NoFail
                        /\ delivered => t.fired < MaxFires
                        /\ last' = Op("tahoeTimerTickImpl",
                                      [self |-> self, timer |-> timer], out)
                        /\ timers' = [timers EXCEPT
                                        ![k].fired = IF delivered THEN @ + 1 ELSE @,
                                        ![k].ticks = @ + Len(out.routed)]
                        /\ UNCHANGED <<registry, instances, assoc, threads>>

\* tahoeTimerTick: sent by application code rather than by a firing timer:
\* the gateway forwards any selector to any handle, so the tick callback
\* can be entered on any instance of the timer-target class with any timer.
TickSent ==
    \E self \in Selves(TimerClass) \ {NULL}, k \in DOMAIN timers :
        /\ Responds(self, "tahoeTimerTick:")
        /\ last' = Op("tahoeTimerTickImpl", [self |-> self, timer |-> TimerHandle(k)],
                    tahoeTimerTickImpl(World, self, TimerHandle(k), NoFail))
        /\ UNCHANGED <<registry, instances, assoc, timers, threads>>

MouseDown ==
    \E self \in Selves(ViewClass), in \in PointerInputs :
        /\ self # NULL => Responds(self, "mouseDown:")
        /\ NullSelfInput(self, in, EventHandle, PlainPointer)
        /\ last' = Op("tahoeViewMouseDownImpl",
                    [self |-> self, event |-> in[1], ev |-> PointerEvent(in[2])],
                    tahoeViewMouseDownImpl(World, self, in[1], PointerEvent(in[2]), in[3]))
        /\ UNCHANGED <<registry, instances, assoc, timers, threads>>

MouseUp ==
    \E self \in Selves(ViewClass), in \in PointerInputs :
        /\ self # NULL => Responds(self, "mouseUp:")
        /\ NullSelfInput(self, in, EventHandle, PlainPointer)
        /\ last' = Op("tahoeViewMouseUpImpl",
                    [self |-> self, event |-> in[1], ev |-> PointerEvent(in[2])],
                    tahoeViewMouseUpImpl(World, self, in[1], PointerEvent(in[2]), in[3]))
        /\ UNCHANGED <<registry, instances, assoc, timers, threads>>

MouseDragged ==
    \E self \in Selves(ViewClass), in \in PointerInputs :
        /\ self # NULL => Responds(self, "mouseDragged:")
        /\ NullSelfInput(self, in, EventHandle, PlainPointer)
        /\ last' = Op("tahoeViewMouseDraggedImpl",
                    [self |-> self, event |-> in[1], ev |-> PointerEvent(in[2])],
                    tahoeViewMouseDraggedImpl(World, self, in[1], PointerEvent(in[2]), in[3]))
        /\ UNCHANGED <<registry, instances, assoc, timers, threads>>

MouseMoved ==
    \E self \in Selves(ViewClass), in \in PointerInputs :
        /\ self # NULL => Responds(self, "mouseMoved:")
        /\ NullSelfInput(self, in, EventHandle, PlainPointer)
        /\ last' = Op("tahoeViewMouseMovedImpl",
                    [self |-> self, event |-> in[1], ev |-> PointerEvent(in[2])],
                    tahoeViewMouseMovedImpl(World, self, in[1], PointerEvent(in[2]), in[3]))
        /\ UNCHANGED <<registry, instances, assoc, timers, threads>>

KeyDown ==
    \E self \in Selves(ViewClass), in \in KeyInputs :
        /\ self # NULL => Responds(self, "keyDown:")
        /\ NullSelfInput(self, in, EventHandle, PlainKey)
        /\ last' = Op("tahoeViewKeyDownImpl",
                    [self |-> self, event |-> in[1], ev |-> KeyEvent(in[2])],
                    tahoeViewKeyDownImpl(World, self, in[1], KeyEvent(in[2]), in[3]))
        /\ UNCHANGED <<registry, instances, assoc, timers, threads>>

KeyUp ==
    \E self \in Selves(ViewClass), in \in KeyInputs :
        /\ self # NULL => Responds(self, "keyUp:")
        /\ NullSelfInput(self, in, EventHandle, PlainKey)
        /\ last' = Op("tahoeViewKeyUpImpl",
                    [self |-> self, event |-> in[1], ev |-> KeyEvent(in[2])],
                    tahoeViewKeyUpImpl(World, self, in[1], KeyEvent(in[2]), in[3]))
        /\ UNCHANGED <<registry, instances, assoc, timers, threads>>

AcceptsFirstResponder ==
    \E self \in Selves(ViewClass) :
        /\ self # NULL => Responds(self, "acceptsFirstResponder")
        /\ last' = Op("tahoeViewAcceptsFirstResponderImpl", [self |-> self],
                    tahoeViewAcceptsFirstResponderImpl(self))
        /\ UNCHANGED <<registry, instances, assoc, timers, threads>>

(***************************************************************************)
(* A constructor call of the lookup-or-create shape, one runtime call at a  *)
(* time, as a thread executes it next to another thread.  No step takes a  *)
(* lock: the source has none.                                              *)
(***************************************************************************)
\* A faulty allocation: a pair is handed out for a name already registered.
AllocatePairAlways(reg, name) == ClassHandle(name)

\* objc_allocateClassPair: Nil when the name is already in use.
objc_allocateClassPair(reg, name) ==
    IF reg[name].registered THEN NULL ELSE ClassHandle(name)

\* The call is entered with a non-zero token and, for the timer, an
\* interval of half a second: the argument checks pass.
ThreadBegin(t) ==
    /\ threads[t].pc = "idle"
    /\ \E op \in ThreadCtors, window_ptr \in {7, 42} :
          threads' = [threads EXCEPT ![t] =
                         [IdleThread EXCEPT
                             !.pc = "lookup", !.op = op, !.token = window_ptr,
                             !.interval = IF op = "createAnimationTimer"
                                          THEN 5 ELSE 0]]
    /\ UNCHANGED <<registry, instances, assoc, timers, last>>

\* Class c = objc_getClass(name); if (c == NULL) { create } instantiate.
ThreadLookup(t) ==
    /\ threads[t].pc = "lookup"
    /\ LET name == CtorClass(threads[t].op)
           c == objc_getClass(registry, name)
       IN  threads' = [threads EXCEPT ![t] =
                          [Advance(@, IF c = NULL THEN "allocate" ELSE "alloc", NULL,
                                   <<Call("objc_getClass", name, c)>>, <<>>)
                             EXCEPT !.found = c]]
    /\ UNCHANGED <<registry, instances, assoc, timers, last>>

\* base = objc_getClass(base name); if (base == NULL) return NULL;
\* c = objc_allocateClassPair(base, name, 0); if (c == NULL) return NULL.
\* The runtime refuses a name that is registered (dup records that it was
\* asked to) and may fail for one that is not.
ThreadAllocate(t) ==
    /\ threads[t].pc = "allocate"
    /\ LET th == threads[t]
           name == CtorClass(th.op)
           base == CtorBase(th.op)
       IN  \E fail \in {NoFail, <<"objc_getClass", base>>,
                        <<"objc_allocateClassPair", name>>} :
             IF Fails(fail, "objc_getClass", base)
             THEN LET nxt == Advance(th, "done", NULL,
                                     <<Call("objc_getClass", base, 0)>>,
                                     <<"base class not found">>)
                  IN  /\ threads' = [threads EXCEPT ![t] = nxt]
                      /\ last' = ThreadOp(nxt)
                      /\ UNCHANGED registry
             ELSE LET c == IF Fails(fail, "objc_allocateClassPair", name) THEN NULL
                           ELSE objc_allocateClassPair(registry, name)
                      made == <<Call("objc_getClass", base, ClassHandle(base)),
                                Call("objc_allocateClassPair", name, c)>>
                      nxt == [(IF c = NULL
                               THEN Advance(th, "done", NULL, made,
                                            <<"Failed to allocate class">>)
                               ELSE Advance(th, IF CtorMethods(th.op) = <<>>
                                                THEN "register" ELSE "install",
                                            NULL, made, <<>>))
                                 EXCEPT !.pair = c,
                                        !.regsAtAlloc = registry[name].regs]
                  IN  /\ threads' = [threads EXCEPT ![t] = nxt]
                      /\ last' = IF c = NULL THEN ThreadOp(nxt) ELSE last
                      /\ registry' =
                            IF c # NULL THEN [registry EXCEPT ![name].allocated = TRUE]
                            ELSE IF registry[name].registered
                            THEN [registry EXCEPT ![name].dup = TRUE]
                            ELSE registry
    /\ UNCHANGED <<instances, assoc, timers>>

\* sel_registerName and class_addMethod for each callback, on the thread's
\* own, still unregistered pair; return NULL at the first that fails.
ThreadInstall(t) ==
    /\ threads[t].pc = "install"
    /\ LET th == threads[t]
           ms == CtorMethods(th.op)
       IN  \E fail \in {NoFail} \cup InstallFails(ms) :
             LET inst == InstallMethods(ms, 1, {}, fail)
                 nxt == [Advance(th, IF inst.ok THEN "register" ELSE "done", NULL,
                                 inst.calls, inst.diags)
                           EXCEPT !.methods = inst.methods]
             IN  /\ threads' = [threads EXCEPT ![t] = nxt]
                 /\ last' = IF inst.ok THEN last ELSE ThreadOp(nxt)
    /\ UNCHANGED <<registry, instances, assoc, timers>>

\* objc_registerClassPair(c): a duplicate when the name is registered; the
\* name then stays with the class registered first, and the thread goes on
\* with its own class object.
ThreadRegister(t) ==
    /\ threads[t].pc = "register"
    /\ LET th == threads[t]
           name == CtorClass(th.op)
       IN  /\ registry' = [registry EXCEPT
                              ![name].dup = @ \/ registry[name].registered,
                              ![name].registered = TRUE,
                              ![name].methods = IF registry[name].registered THEN @
                                                ELSE th.methods,
                              ![name].regs = Once(@)]
           /\ threads' = [threads EXCEPT ![t] =
                             [Advance(th, "alloc", NULL,
                                      <<Call("objc_registerClassPair", name, 1)>>,
                                      <<"Created class">>)
                                EXCEPT !.registered = TRUE,
                                       !.own = registry[name].registered]]
    /\ UNCHANGED <<instances, assoc, timers, last>>

\* sel_registerName("alloc"), [cls alloc]: the object exists from here on,
\* with nothing associated to it.
ThreadAlloc(t) ==
    /\ threads[t].pc = "alloc"
    /\ LET th == threads[t] IN
       \E fail \in {NoFail, <<"sel_registerName", "alloc">>, <<"objc_msgSend", "alloc">>} :
          IF Fails(fail, "sel_registerName", "alloc")
          THEN LET nxt == Advance(th, "done", NULL,
                                  <<Call("sel_registerName", "alloc", 0)>>,
                                  <<"alloc selector not found">>)
               IN  /\ threads' = [threads EXCEPT ![t] = nxt]
                   /\ last' = ThreadOp(nxt)
                   /\ UNCHANGED instances
          ELSE IF Fails(fail, "objc_msgSend", "alloc")
          THEN LET nxt == Advance(th, "done", NULL,
                                  <<Call("sel_registerName", "alloc", 1),
                                    Call("objc_msgSend", "alloc", 0)>>,
                                  <<"Failed to allocate">>)
               IN  /\ threads' = [threads EXCEPT ![t] = nxt]
                   /\ last' = ThreadOp(nxt)
                   /\ UNCHANGED instances
          ELSE LET obj == InstHandle(Len(instances) + 1)
               IN  /\ Len(instances) < MaxInst
                   /\ instances' = Append(instances, [cls |-> CtorClass(th.op),
                                                      token |-> th.token])
                   /\ threads' = [threads EXCEPT ![t] =
                                     [Advance(th, "init", NULL,
                                              <<Call("sel_registerName", "alloc", 1),
                                                Call("objc_msgSend", "alloc", obj)>>,
                                              <<>>)
                                        EXCEPT !.obj = obj]]
                   /\ UNCHANGED last
    /\ UNCHANGED <<registry, assoc, timers>>

\* sel_registerName("init"), [obj init].  A missing selector returns NULL
\* with the object left behind; an init that returns nil has released the
\* object: it is no instance of the class any more (the newest object
\* gives its handle back).
ThreadInit(t) ==
    /\ threads[t].pc = "init"
    /\ LET th == threads[t]
           i == InstIndex(th.obj)
       IN
       \E fail \in {NoFail, <<"sel_registerName", "init">>, <<"objc_msgSend", "init">>} :
          IF Fails(fail, "sel_registerName", "init")
          THEN LET nxt == Advance(th, "done", NULL,
                                  <<Call("sel_registerName", "init", 0)>>,
                                  <<"init selector not found">>)
               IN  /\ threads' = [threads EXCEPT ![t] = nxt]
                   /\ last' = ThreadOp(nxt)
                   /\ UNCHANGED instances
          ELSE IF Fails(fail, "objc_msgSend", "init")
          THEN LET nxt == [Advance(th, "done", NULL,
                                   <<Call("sel_registerName", "init", 1),
                                     Call("objc_msgSend", "init", 0)>>,
                                   <<"Failed to initialize">>)
                             EXCEPT !.obj = NULL]
               IN  /\ threads' = [threads EXCEPT ![t] = nxt]
                   /\ last' = ThreadOp(nxt)
                   /\ instances' =
                         IF i = Len(instances) THEN SubSeq(instances, 1, i - 1)
                         ELSE [instances EXCEPT ![i] = [cls |-> "released", token |-> 0]]
          ELSE /\ threads' = [threads EXCEPT ![t] =
                                 Advance(th, "associate", NULL,
                                         <<Call("sel_registerName", "init", 1),
                                           Call("objc_msgSend", "init", th.obj)>>,
                                         <<>>)]
               /\ UNCHANGED <<instances, last>>
    /\ UNCHANGED <<registry, assoc, timers>>

\* objc_setAssociatedObject(obj, "windowPtr", window_ptr): the delegate and
\* the view are returned here; the timer target goes on to its timer.
ThreadAssociate(t) ==
    /\ threads[t].pc = "associate"
    /\ LET th == threads[t]
           set == <<Call("objc_setAssociatedObject", "windowPtr", th.token)>>
           nxt == IF th.op = "createAnimationTimer"
                  THEN Advance(th, "addtick", NULL, set, <<>>)
                  ELSE Advance(th, "done", th.obj, set, <<"Created instance">>)
       IN  /\ assoc' = objc_setAssociatedObject(assoc, th.obj, th.token)
           /\ threads' = [threads EXCEPT ![t] = nxt]
           /\ last' = IF nxt.pc = "done" THEN ThreadOp(nxt) ELSE last
    /\ UNCHANGED <<registry, instances, timers>>

\* createAnimationTimer after the association: the NSNumber userInfo, then
\* sel_registerName("tahoeTimerTick:") and class_addMethod on the class
\* object this call looked up or allocated, whose NO is ignored.
ThreadAddTick(t) ==
    /\ threads[t].pc = "addtick"
    /\ LET th == threads[t] IN
       \E fail \in {NoFail, <<"objc_getClass", "NSNumber">>,
                    <<"sel_registerName", "numberWithUnsignedLongLong:">>,
                    <<"objc_msgSend", "numberWithUnsignedLongLong:">>,
                    <<"sel_registerName", "tahoeTimerTick:">>,
                    <<"class_addMethod", "tahoeTimerTick:">>} :
          LET number == <<Call("objc_msgSend", "numberWithUnsignedLongLong:", 1)>>
              add == class_addMethod(IF th.own THEN th.methods
                                     ELSE registry[TimerClass].methods,
                                     "tahoeTimerTick:", fail)
              step ==
                IF Fails(fail, "objc_getClass", "NSNumber")
                THEN Advance(th, "done", NULL,
                             <<Call("objc_getClass", "NSNumber", 0)>>,
                             <<"NSNumber class not found">>)
                ELSE IF Fails(fail, "sel_registerName", "numberWithUnsignedLongLong:")
                THEN Advance(th, "done", NULL,
                             <<Call("sel_registerName", "numberWithUnsignedLongLong:", 0)>>,
                             <<"numberWithUnsignedLongLong: selector not found">>)
                ELSE IF Fails(fail, "objc_msgSend", "numberWithUnsignedLongLong:")
                THEN Advance(th, "done", NULL,
                             <<Call("objc_msgSend", "numberWithUnsignedLongLong:", 0)>>,
                             <<"Failed to create NSNumber for userInfo">>)
                ELSE IF Fails(fail, "sel_registerName", "tahoeTimerTick:")
                THEN Advance(th, "done", NULL,
                             number \o <<Call("sel_registerName", "tahoeTimerTick:", 0)>>,
                             <<"Failed to register tick selector">>)
                ELSE Advance(th, "schedule", NULL,
                             number \o <<Call("sel_registerName", "tahoeTimerTick:", 1),
                                         Call("class_addMethod", "tahoeTimerTick:",
                                              add.added)>>,
                             IF add.added = 0
                             THEN <<"already exists or failed to add (continuing)">>
                             ELSE <<"Added tahoeTimerTick: method">>)
              nxt == IF step.pc = "schedule" /\ th.own
                     THEN [step EXCEPT !.methods = add.methods] ELSE step
          IN  /\ threads' = [threads EXCEPT ![t] = nxt]
              /\ last' = IF nxt.pc = "done" THEN ThreadOp(nxt) ELSE last
              /\ registry' = IF nxt.pc = "done" \/ th.own THEN registry
                             ELSE [registry EXCEPT ![TimerClass].methods = add.methods]
    /\ UNCHANGED <<instances, assoc, timers>>

\* sel_registerName for the scheduling selector, objc_getClass("NSTimer"),
\* then the timer is scheduled on the run loop and returned.
ThreadSchedule(t) ==
    /\ threads[t].pc = "schedule"
    /\ LET th == threads[t]
           timer == TimerHandle(Len(timers) + 1)
       IN
       \E fail \in {NoFail, <<"sel_registerName", "scheduledTimer">>,
                    <<"objc_getClass", "NSTimer">>, <<"objc_msgSend", "scheduledTimer">>} :
          LET nxt ==
                IF Fails(fail, "sel_registerName", "scheduledTimer")
                THEN Advance(th, "done", NULL,
                             <<Call("sel_registerName", "scheduledTimer", 0)>>,
                             <<"scheduledTimer selector not found">>)
                ELSE IF Fails(fail, "objc_getClass", "NSTimer")
                THEN Advance(th, "done", NULL,
                             <<Call("objc_getClass", "NSTimer", 0)>>,
                             <<"NSTimer class not found">>)
                ELSE IF Fails(fail, "objc_msgSend", "scheduledTimer")
                THEN Advance(th, "done", NULL,
                             <<Call("objc_msgSend", "scheduledTimer", 0)>>,
                             <<"Failed to create NSTimer">>)
                ELSE Advance(th, "done", timer,
                             <<Call("objc_msgSend", "scheduledTimer", timer)>>,
                             <<"Created NSTimer">>)
          IN  /\ threads' = [threads EXCEPT ![t] = nxt]
              /\ last' = ThreadOp(nxt)
              /\ timers' = IF fail # NoFail THEN timers
                           ELSE Append(timers, [target |-> th.obj,
                                                sel |-> "tahoeTimerTick:",
                                                userInfo |-> th.token,
                                                fired |-> 0, ticks |-> 0])
    /\ UNCHANGED <<registry, instances, assoc>>

NextThread ==
    \E t \in Threads :
        \/ ThreadBegin(t) \/ ThreadLookup(t) \/ ThreadAllocate(t)
        \/ ThreadInstall(t) \/ ThreadRegister(t) \/ ThreadAlloc(t)
        \/ ThreadInit(t) \/ ThreadAssociate(t) \/ ThreadAddTick(t)
        \/ ThreadSchedule(t)

NextGateway ==
    \/ WrapperString \/ Wrapper \/ WrapperRect \/ Wrapper4 \/ Void1 \/ Void0
    \/ Void1Bool \/ Wrapper1UInt \/ ReturnsNSRect

NextConstruct ==
    \/ CreateWindowDelegate \/ CreateAnimationTimer \/ CreateTahoeView

NextCallback ==
    \/ WindowDidResize \/ WindowDidBecomeKey \/ WindowDidResignKey \/ TimerFire
    \/ MouseDown \/ MouseUp \/ MouseDragged \/ MouseMoved \/ KeyDown \/ KeyUp
    \/ AcceptsFirstResponder

Next ==
    \/ NextGateway \/ NextConstruct \/ NextCallback \/ TickSent \/ NextThread
    \/ CreateNSImage

\* Every entry point, in any order.
Spec == Init /\ [][Next]_vars

\* The image constructor alone.
SpecImage == Init /\ [][CreateNSImage]_vars

\* The call-shims alone.
SpecGateway == Init /\ [][NextGateway]_vars

\* The constructors alone.
SpecSynth == Init /\ [][NextConstruct]_vars

\* The constructors and the callbacks the host delivers.
SpecEvents == Init /\ [][NextConstruct \/ NextCallback]_vars

\* The animation timer alone: its constructor and its firing.
SpecTimer == Init /\ [][CreateAnimationTimer \/ TimerFire]_vars

\* The view alone: its constructor and the callbacks of its instances.
NextView ==
    \/ CreateTahoeView \/ MouseDown \/ MouseUp \/ MouseDragged \/ MouseMoved
    \/ KeyDown \/ KeyUp \/ AcceptsFirstResponder

SpecView == Init /\ [][NextView]_vars

\* The animation timer with ticks sent by hand as well as by firing.
SpecTick == Init /\ [][CreateAnimationTimer \/ TimerFire \/ TickSent]_vars

\* Two threads inside constructor calls at the same time.
SpecRace == Init /\ [][NextThread]_vars

\* The window delegate alone: its constructor and its three callbacks.
NextDelegate ==
    \/ CreateWindowDelegate \/ WindowDidResize \/ WindowDidBecomeKey
    \/ WindowDidResignKey

SpecDelegate == Init /\ [][NextDelegate]_vars

(***************************************************************************)
(* Properties of the call-shims (checked under SpecGateway).               *)
(***************************************************************************)
GatewayOps ==
    {"objc_msgSend_wrapper", "objc_msgSend_wrapper_string", "objc_msgSend_wrapper_rect",
     "objc_msgSend_wrapper_4", "objc_msgSend_void_0", "objc_msgSend_void_1",
     "objc_msgSend_void_1_bool", "objc_msgSend_wrapper_1_uint",
     "objc_msgSend_returns_NSRect"}

\* A receiver the handle validator must refuse.
BadReceiver(h) == h = NULL \/ h < MinAddr \/ h % WordAlign # 0

\* C1: every call-shim, given a receiver that is null, below 0x1000 or not
\* 8-byte aligned, returns its null/void/empty sentinel and makes no
\* foreign call.
C1_BadReceiverRejected ==
    (last.op \in GatewayOps /\ BadReceiver(last.args.receiver))
        => (last.calls = <<>> /\ last.ret = NULL /\ last.rect = ZeroRect)

\* The case of C1 that the code does not meet: objc_msgSend_returns_NSRect
\* forwards a non-null receiver that is below 0x1000 or misaligned.
C1_RectQueryForwardsBadReceiver ==
    /\ last.op = "objc_msgSend_returns_NSRect"
    /\ last.args.receiver # NULL
    /\ BadReceiver(last.args.receiver)
    /\ Len(last.calls) = 1
    /\ last.calls[1].recv = last.args.receiver

RectOps == {"objc_msgSend_wrapper_rect", "objc_msgSend_wrapper_4"}

RectOutOfRange(r) == r.w < 0 \/ r.h < 0 \/ r.w > MaxRectDim \/ r.h > MaxRectDim

\* The arguments of a rectangle shim other than the rectangle's size are
\* valid: receiver and rect_ptr pass the handle validator, the selector is
\* non-null, and objc_msgSend_wrapper_4's two scalars fit in 32 bits.
RectArgsValid(o) ==
    /\ ~BadReceiver(o.args.receiver)
    /\ o.args.selector # NULL
    /\ ~BadReceiver(o.args.rect_ptr)
    /\ o.op = "objc_msgSend_wrapper_4"
            => ~WGt(o.args.arg2, MaxUInt32) /\ ~WGt(o.args.arg3, MaxUInt32)

\* C2: a rectangle with a negative width or height, or a width or height
\* above 16384, makes both rectangle shims return null with no foreign
\* call; a rectangle within 0..16384 on both sides (16384 included), the
\* other arguments valid, is forwarded in exactly one foreign call.
C2_RectDimensions ==
    last.op \in RectOps =>
        /\ RectOutOfRange(last.args.rect) => last.ret = NULL /\ last.calls = <<>>
        /\ (~RectOutOfRange(last.args.rect) /\ RectArgsValid(last))
                => /\ Len(last.calls) = 1
                   /\ last.calls[1].recv = last.args.receiver
                   /\ last.calls[1].args[1] = last.args.rect

\* Both shims have forwarded a 16384 x 16384 rectangle or refused a
\* 16385-wide one: here the four-argument shim forwards the boundary.
C2_BoundaryForwarded ==
    /\ last.op = "objc_msgSend_wrapper_4"
    /\ last.args.rect.w = MaxRectDim /\ last.args.rect.h = MaxRectDim
    /\ Len(last.calls) = 1

(***************************************************************************)
(* Properties of type synthesis (checked under SpecSynth).                 *)
(***************************************************************************)
CtorOps == {"createWindowDelegate", "createAnimationTimer", "createTahoeView"}

ClassOfCtor(op) ==
    IF op = "createWindowDelegate" THEN DelegateClass
    ELSE IF op = "createAnimationTimer" THEN TimerClass
    ELSE ViewClass

\* The constructor call recorded in o called runtime function fn.
MadeCall(o, fn) == \E i \in DOMAIN o.calls : o.calls[i].fn = fn

\* The constructor call recorded in o allocated a class pair for name c.
Allocates(o, c) ==
    \E i \in DOMAIN o.calls :
        o.calls[i] = Call("objc_allocateClassPair", c, ClassHandle(c))

\* C3 as stated: in any sequence of constructor calls each synthesized type
\* name is allocated at most once and registered at most once, with no
\* duplicate-registration error.
C3_AllocatedAndRegisteredOnce ==
    [][\A c \in Classes :
          /\ (last'.op \in CtorOps /\ Allocates(last', c)) => ~registry[c].allocated
          /\ registry'[c].regs <= 1
          /\ ~registry'[c].dup]_vars

\* C3, amended: each synthesized type name is registered at most once, the
\* runtime is never asked to allocate a registered name, a registered name
\* was allocated, and a constructor that returns a handle leaves its type
\* registered exactly once.  (A name whose install step failed is
\* allocated again by the next call.)
C3_RegisteredAtMostOnce ==
    /\ \A c \in Classes :
          /\ registry[c].regs <= 1
          /\ ~registry[c].dup
          /\ registry[c].registered <=> registry[c].regs = 1
          /\ registry[c].registered => registry[c].allocated
    /\ (last.op \in CtorOps /\ last.ret # NULL)
          => registry[ClassOfCtor(last.op)].regs = 1

\* The same constructor has returned two instances, the second by lookup.
C3_SecondCallLooksUp ==
    /\ Len(instances) = 2
    /\ instances[1].cls = instances[2].cls
    /\ last.op \in CtorOps /\ ClassOfCtor(last.op) = instances[2].cls
    /\ last.ret # NULL
    /\ ~MadeCall(last, "objc_allocateClassPair")
    /\ registry[instances[2].cls].regs = 1

\* C4: once a synthesized type is registered, every later call of its
\* constructor is a pure lookup: no class allocation, no method
\* installation attempt, no register step, the registry left as it was.
C4_PureLookupOnceRegistered ==
    [][(last'.op \in CtorOps /\ registry[ClassOfCtor(last'.op)].registered)
          => /\ ~MadeCall(last', "objc_allocateClassPair")
             /\ ~MadeCall(last', "class_addMethod")
             /\ ~MadeCall(last', "objc_registerClassPair")
             /\ registry' = registry]_vars

\* A second createAnimationTimer call, its type registered by the first,
\* has attempted to install the tick method again.
C4_TimerReinstalls ==
    /\ last.op = "createAnimationTimer"
    /\ Len(timers) = 2
    /\ \E i \in DOMAIN last.calls :
          last.calls[i] = Call("class_addMethod", "tahoeTimerTick:", 0)

\* A callback selector failed to resolve, or class_addMethod reported NO,
\* in the constructor call recorded in o.
InstallFailed(o) ==
    \E i \in DOMAIN o.calls :
        /\ o.calls[i].res = 0
        /\ \/ o.calls[i].fn = "class_addMethod"
           \/ /\ o.calls[i].fn = "sel_registerName"
              /\ o.calls[i].arg \in Required(ClassOfCtor(o.op))

\* C5: in each constructor, a callback selector that fails to resolve or a
\* method installation that reports failure aborts the creation: null is
\* returned, no instance is created, no token is stored and no timer is
\* scheduled.
C5_InstallFailureAborts ==
    [][(last'.op \in CtorOps /\ InstallFailed(last'))
          => /\ last'.ret = NULL
             /\ instances' = instances
             /\ assoc' = assoc
             /\ timers' = timers]_vars

\* createAnimationTimer has returned null on an unresolved tick selector
\* after creating the target instance and storing its token.
C5_TimerAbortsLate ==
    /\ last.op = "createAnimationTimer"
    /\ last.ret = NULL
    /\ \E i \in DOMAIN last.calls :
          last.calls[i] = Call("sel_registerName", "tahoeTimerTick:", 0)
    /\ Len(instances) = 1
    /\ InstHandle(1) \in DOMAIN assoc

\* C6: in every state between operations a registered type carries all of
\* its required callback methods.
C6_RegisteredIsComplete ==
    \A c \in Classes : registry[c].registered => Required(c) \subseteq registry[c].methods

\* createAnimationTimer has returned null and left TahoeTimerTarget
\* registered without its tick method.
C6_TimerTypeWithoutTick ==
    /\ last.op = "createAnimationTimer"
    /\ last.ret = NULL
    /\ registry[TimerClass].registered
    /\ registry[TimerClass].methods = {}

(***************************************************************************)
(* Properties of the callbacks.                                            *)
(***************************************************************************)
\* The token the constructor of the instance behind handle h was given.
TokenOf(h) == instances[InstIndex(h)].token

\* C7 as stated: the token stored for an instance reads back as the token
\* its constructor was given, a timer carries the token of its target, and
\* every router call made by a callback on an instance passes that
\* instance's token, whatever other instances exist.
C7_TokenRoundTrip ==
    /\ \A i \in DOMAIN instances :
          InstHandle(i) \in DOMAIN assoc
              => objc_getAssociatedObject(assoc, InstHandle(i)) = instances[i].token
    /\ \A k \in DOMAIN timers :
          TimerUserInfo(World, TimerHandle(k)) = TokenOf(timers[k].target)
    /\ \A j \in DOMAIN last.routed :
          last.routed[j].window_ptr = TokenOf(last.args.self)

\* The tick callback ran on an instance that holds its own token in the
\* store and routed another token: that of the timer it was handed, which
\* was scheduled for another instance.
C7_TickRoutesOtherToken ==
    /\ last.op = "tahoeTimerTickImpl"
    /\ last.args.self \in DOMAIN assoc
    /\ assoc[last.args.self] = TokenOf(last.args.self)
    /\ Len(last.routed) = 1
    /\ last.routed[1].window_ptr # assoc[last.args.self]
    /\ last.routed[1].window_ptr = TimerUserInfo(World, last.args.timer)
    /\ timers[TimerIndex(last.args.timer)].target # last.args.self

PointerOps ==
    {"tahoeViewMouseDownImpl", "tahoeViewMouseUpImpl", "tahoeViewMouseDraggedImpl",
     "tahoeViewMouseMovedImpl"}

\* The kind each pointer callback must route: press 0, release 1, move 2,
\* drag 3.
PointerKind(op) ==
    IF op = "tahoeViewMouseDownImpl" THEN 0
    ELSE IF op = "tahoeViewMouseUpImpl" THEN 1
    ELSE IF op = "tahoeViewMouseMovedImpl" THEN 2
    ELSE 3

\* C8 (under SpecView): every route made by a pointer callback goes to the
\* pointer router with the callback's kind; a move routes button 0 whatever
\* the event's button number; press, release and drag route an ordinal in
\* {0,1,2} unchanged and any other ordinal, negative ones included, as 3.
C8_PointerMapping ==
    last.op \in PointerOps =>
        \A j \in DOMAIN last.routed :
            /\ last.routed[j].router = "routeMouseEvent"
            /\ last.routed[j].kind = PointerKind(last.op)
            /\ last.routed[j].button =
                  IF last.op = "tahoeViewMouseMovedImpl" THEN 0
                  ELSE IF last.args.ev.buttonNumber \in {0, 1, 2}
                  THEN last.args.ev.buttonNumber
                  ELSE 3

\* A drag whose event reports button -1 has been routed as button 3.
C8_NegativeButtonDrag ==
    /\ last.op = "tahoeViewMouseDraggedImpl"
    /\ last.args.ev.buttonNumber = -1
    /\ Len(last.routed) = 1
    /\ last.routed[1].kind = 3 /\ last.routed[1].button = 3

\* C9 (under SpecTimer): for every timer createAnimationTimer scheduled with
\* token t, the tick router has been called once per firing (fired counts
\* the firings, ticks the router calls, each made in the firing's own
\* step), every call is route_tick(t), and no other router is called.
C9_TickPerFiring ==
    /\ \A k \in DOMAIN timers : timers[k].ticks = timers[k].fired
    /\ last.op = "tahoeTimerTickImpl" =>
          /\ Len(last.routed) <= 1
          /\ \A j \in DOMAIN last.routed :
                last.routed[j] = routeTickCallback(TokenOf(last.args.self))

\* A timer has fired twice and its second firing has routed its token.
C9_FiredTwice ==
    /\ last.op = "tahoeTimerTickImpl"
    /\ Len(last.routed) = 1
    /\ \E k \in DOMAIN timers :
          /\ TimerHandle(k) = last.args.timer
          /\ timers[k].fired = 2 /\ timers[k].ticks = 2
          /\ last.routed[1].window_ptr = timers[k].userInfo

\* C10 (under SpecTimer): createAnimationTimer with interval <= 0 or
\* interval > 1.0 returns null after no runtime call and changes nothing:
\* no type registered, no instance, no token, no timer; 1.0 itself is not
\* refused as an interval.
C10_BadIntervalRejected ==
    [][last'.op = "createAnimationTimer" =>
          /\ (last'.args.interval <= 0 \/ last'.args.interval > IntervalOne)
                => /\ last'.ret = NULL
                   /\ last'.calls = <<>>
                   /\ UNCHANGED <<registry, instances, assoc, timers>>
          /\ (last'.args.interval = IntervalOne /\ last'.args.window_ptr # 0)
                => last'.diags # <<"Invalid interval">>]_vars

\* An interval of 1.5 has been refused while an earlier timer exists, and
\* that timer is still the only one.
C10_TooLongRefused ==
    /\ last.op = "createAnimationTimer"
    /\ last.args.interval = 15
    /\ last.ret = NULL
    /\ Len(timers) = 1 /\ Len(instances) = 1

(***************************************************************************)
(* C11: a resize notification routes the content view's size.              *)
(***************************************************************************)
\* A runtime call of the operation recorded in o returned NULL from
\* sel_registerName.
SelectorFailed(o) ==
    \E i \in DOMAIN o.calls : o.calls[i].fn = "sel_registerName" /\ o.calls[i].res = 0

\* C11 (under SpecDelegate): a resize notification delivered to a delegate
\* holding token t, whose window and content view are present and whose
\* selectors resolve, makes exactly one router call,
\* routeWindowDidResize(t, w, h) with w and h the content view's frame
\* size, not the window's.
C11_ResizeRoutesContentFrame ==
    (/\ last.op = "windowDidResizeImpl"
     /\ last.args.self \in DOMAIN assoc
     /\ last.args.notification # NULL
     /\ last.args.note.window # NULL
     /\ last.args.note.contentView # NULL
     /\ ~SelectorFailed(last))
        => last.routed =
              <<[router |-> "routeWindowDidResize",
                 window_ptr |-> TokenOf(last.args.self),
                 new_width |-> last.args.note.contentFrame.w,
                 new_height |-> last.args.note.contentFrame.h]>>

\* A resize was routed with a content size of 1024 x 768 while the
\* window's own frame was larger.
C11_ResizeRouted ==
    /\ last.op = "windowDidResizeImpl"
    /\ Len(last.routed) = 1
    /\ last.routed[1].new_width = 1024 /\ last.routed[1].new_height = 768
    /\ last.args.note.frame.w > 1024
    /\ last.routed[1].window_ptr = 42

(***************************************************************************)
(* C12: key events route the key code, the character and the modifiers.    *)
(***************************************************************************)
KeyOps == {"tahoeViewKeyDownImpl", "tahoeViewKeyUpImpl"}

KeyKind(op) == IF op = "tahoeViewKeyDownImpl" THEN 0 ELSE 1

\* The first character of a UTF-8 string of one- and two-byte sequences,
\* 0 for the empty string.
DecodedFirstChar(utf8) ==
    IF Len(utf8) = 0 THEN 0
    ELSE IF utf8[1] < 128 THEN utf8[1]
    ELSE (utf8[1] - 192) * 64 + (utf8[2] - 128)

\* The character of a key event: 0 when the string is absent or empty.
CharacterOf(ev) ==
    IF ev.characters = NULL THEN W(0) ELSE W(DecodedFirstChar(ev.utf8))

\* C12 as stated (under SpecView): a key-down (key-up) event with key code
\* k, decoded first character c and a modifier mask m that fits 32 bits,
\* delivered to a view holding token t with every selector resolving, makes
\* exactly one router call, routeKeyboardEvent(t, 0 (1), k, c, m), with
\* c = 0 when the character string is absent or empty.
C12_KeyRoutesDecodedChar ==
    (/\ last.op \in KeyOps
     /\ last.args.self \in DOMAIN assoc
     /\ last.args.event # NULL
     /\ ~SelectorFailed(last)
     /\ ~WGt(last.args.ev.modifierFlags, MaxUInt32))
        => last.routed =
              <<[router |-> "routeKeyboardEvent",
                 window_ptr |-> TokenOf(last.args.self),
                 kind |-> KeyKind(last.op),
                 key_code |-> last.args.ev.keyCode,
                 character |-> CharacterOf(last.args.ev),
                 modifiers |-> last.args.ev.modifierFlags]>>

\* A key-down whose string starts with U+00E9 (bytes C3 A9) was routed
\* with character 0xFFFFFFC3.
C12_NonAsciiSignExtended ==
    /\ last.op = "tahoeViewKeyDownImpl"
    /\ last.args.ev.utf8 = <<195, 169>>
    /\ Len(last.routed) = 1
    /\ last.routed[1].character = <<0, 0, 65535, 65475>>
    /\ last.routed[1].key_code = 36

(***************************************************************************)
(* C13: one callback, at most one router call, of the matching router.     *)
(***************************************************************************)
FocusOps == {"windowDidBecomeKeyImpl", "windowDidResignKeyImpl"}

\* The callbacks that report an event, and the capability query.
EventCallbackOps ==
    PointerOps \cup KeyOps \cup FocusOps \cup {"windowDidResizeImpl", "tahoeTimerTickImpl"}

CallbackOps == EventCallbackOps \cup {"tahoeViewAcceptsFirstResponderImpl"}

RouterOf(op) ==
    IF op \in PointerOps THEN "routeMouseEvent"
    ELSE IF op \in KeyOps THEN "routeKeyboardEvent"
    ELSE IF op \in FocusOps THEN "routeFocusEvent"
    ELSE IF op = "tahoeTimerTickImpl" THEN "routeTickCallback"
    ELSE IF op = "windowDidResizeImpl" THEN "routeWindowDidResize"
    ELSE "none"

\* Every validation of the callback recorded in o passes: the handles it
\* checks are present, the token is there, every selector resolves and
\* every object it asks for is returned.
Validated(o) ==
    IF o.op \in PointerOps \cup KeyOps
    THEN o.args.self \in DOMAIN assoc /\ o.args.event # NULL /\ ~SelectorFailed(o)
    ELSE IF o.op = "windowDidResizeImpl"
    THEN /\ o.args.self \in DOMAIN assoc /\ o.args.notification # NULL
         /\ o.args.note.window # NULL /\ o.args.note.contentView # NULL
         /\ ~SelectorFailed(o)
    ELSE IF o.op \in FocusOps
    THEN o.args.self \in DOMAIN assoc
    ELSE /\ o.op = "tahoeTimerTickImpl"
         /\ o.args.self # NULL /\ o.args.timer # NULL
         /\ TimerUserInfo(World, o.args.timer) # 0
         /\ ~SelectorFailed(o)

\* C13 (under SpecEvents): a callback invocation makes at most one router
\* call and only to the router of its kind; an event callback all of whose
\* validations pass makes exactly one; focus gained routes kind 0 and focus
\* lost kind 1.  (The capability query acceptsFirstResponder never routes.)
C13_OneMatchingRouter ==
    /\ last.op \in CallbackOps
          => /\ Len(last.routed) <= 1
             /\ \A j \in DOMAIN last.routed : last.routed[j].router = RouterOf(last.op)
    /\ (last.op \in EventCallbackOps /\ Validated(last)) => Len(last.routed) = 1
    /\ (last.op \in FocusOps /\ last.routed # <<>>)
          => last.routed[1].kind = (IF last.op = "windowDidBecomeKeyImpl" THEN 0 ELSE 1)

\* A focus-lost notification has been routed as routeFocusEvent(42, 1).
C13_FocusLostRouted ==
    /\ last.op = "windowDidResignKeyImpl"
    /\ last.routed = <<[router |-> "routeFocusEvent", window_ptr |-> 42, kind |-> 1]>>

(***************************************************************************)
(* C14: callbacks and the validity of self and of the event handle.        *)
(***************************************************************************)
\* The native event, notification or timer handle a callback was given
\* (the capability query takes none).
EventArgOf(o) ==
    IF o.op \in PointerOps \cup KeyOps THEN o.args.event
    ELSE IF o.op = "tahoeTimerTickImpl" THEN o.args.timer
    ELSE o.args.notification

\* C14 as stated: a callback given a self or an event/notification handle
\* that is null, below 0x1000 or not 8-byte aligned invokes no router; this
\* includes the notification of the focus-gained and focus-lost callbacks.
C14_InvalidHandlesAbort ==
    (/\ last.op \in EventCallbackOps
     /\ BadReceiver(last.args.self) \/ BadReceiver(EventArgOf(last)))
        => last.routed = <<>>

\* A focus-gained callback given a NULL notification has routed the focus
\* event all the same.
C14_FocusRoutedWithoutNotification ==
    /\ last.op = "windowDidBecomeKeyImpl"
    /\ last.args.notification = NULL
    /\ last.routed = <<[router |-> "routeFocusEvent", window_ptr |-> 7, kind |-> 0]>>

(***************************************************************************)
(* C15: callbacks on an instance without a token.                          *)
(***************************************************************************)
\* C15 as stated: a callback, the tick callback included, whose receiving
\* instance has no token in the associated-state store, or a zero one,
\* invokes no router.
C15_NoTokenNoRoute ==
    (/\ last.op \in EventCallbackOps
     /\ last.args.self # NULL
     /\ objc_getAssociatedObject(assoc, last.args.self) = 0)
        => last.routed = <<>>

\* The tick callback has routed on an instance that has no token in the
\* store: the token came from the timer's userInfo.
C15_TickRoutedWithoutToken ==
    /\ last.op = "tahoeTimerTickImpl"
    /\ last.args.self # NULL
    /\ last.args.self \notin DOMAIN assoc
    /\ Len(last.routed) = 1
    /\ last.routed[1].window_ptr = TimerUserInfo(World, last.args.timer)

(***************************************************************************)
(* C16: the associated-state entry of an instance is written once.         *)
(***************************************************************************)
\* How many times the operation recorded in o wrote the store.
StoreWrites(o) ==
    Cardinality({i \in DOMAIN o.calls : o.calls[i].fn = "objc_setAssociatedObject"})

\* C16 (under SpecAll): in every step an existing entry is kept as it
\* is; a call-shim or a callback writes nothing; a constructor writes at
\* most one entry, that of the instance it has just created; and a
\* constructor that returns a handle has written the entry of its new
\* instance exactly once, with the token it was given.
C16_TokenWrittenOnce ==
    [][/\ \A h \in DOMAIN assoc : h \in DOMAIN assoc' /\ assoc'[h] = assoc[h]
       /\ last'.op \notin CtorOps => (assoc' = assoc /\ StoreWrites(last') = 0)
       /\ last'.op \in CtorOps
             => /\ StoreWrites(last') <= 1
                /\ DOMAIN assoc' \ DOMAIN assoc \subseteq {InstHandle(Len(instances) + 1)}
                /\ StoreWrites(last') = Cardinality(DOMAIN assoc' \ DOMAIN assoc)
       /\ (last'.op \in CtorOps /\ last'.ret # NULL)
             => /\ Len(instances') = Len(instances) + 1
                /\ StoreWrites(last') = 1
                /\ InstHandle(Len(instances')) \in DOMAIN assoc'
                /\ assoc'[InstHandle(Len(instances'))] = last'.args.window_ptr]_vars

\* Two instances hold their own tokens and a call-shim has just forwarded a
\* message.
C16_ShimAfterTwoInstances ==
    /\ Len(instances) = 2
    /\ \A i \in DOMAIN instances :
          InstHandle(i) \in DOMAIN assoc /\ assoc[InstHandle(i)] = instances[i].token
    /\ instances[1].token # instances[2].token
    /\ last.op = "objc_msgSend_void_0"
    /\ last.calls # <<>>

(***************************************************************************)
(* C17: every rejection path emits a diagnostic.                           *)
(***************************************************************************)
\* The operation recorded in o took a rejection path: a call-shim that
\* forwarded nothing, a constructor that returned NULL, an event callback
\* that routed nothing.
TookRejectionPath(o) ==
    \/ o.op \in GatewayOps /\ o.calls = <<>>
    \/ o.op \in CtorOps /\ o.ret = NULL
    \/ o.op \in EventCallbackOps /\ o.routed = <<>>

\* C17 as stated: every rejection path of every call-shim, constructor and
\* callback emits at least one diagnostic line before it returns;
\* objc_msgSend_wrapper is no exception.
C17_RejectionsDiagnosed ==
    TookRejectionPath(last) => last.diags # <<>>

\* objc_msgSend_wrapper has refused a misaligned receiver without a word.
C17_SilentWrapperRejection ==
    /\ last.op = "objc_msgSend_wrapper"
    /\ last.args.receiver = 4100
    /\ last.args.selector # NULL
    /\ last.ret = NULL /\ last.calls = <<>>
    /\ last.diags = <<>>

(***************************************************************************)
(* C18: no foreign call with a null selector.                              *)
(***************************************************************************)
\* C18 (under SpecGateway): a call-shim given a null selector makes no
\* foreign call, reads no memory and returns its sentinel (null, nothing,
\* the all-zero rectangle); every foreign call a shim makes carries a
\* non-null selector.
C18_NullSelectorRejected ==
    last.op \in GatewayOps
        => /\ last.args.selector = NULL
                => /\ last.calls = <<>> /\ last.derefs = <<>>
                   /\ last.ret = NULL /\ last.rect = ZeroRect
           /\ \A i \in DOMAIN last.calls : last.calls[i].sel # NULL

\* The rectangle query was given a valid receiver and a null selector and
\* returned the all-zero rectangle without a foreign call.
C18_RectQueryNullSelector ==
    /\ last.op = "objc_msgSend_returns_NSRect"
    /\ ~BadReceiver(last.args.receiver)
    /\ last.args.selector = NULL
    /\ last.calls = <<>>
    /\ last.rect = ZeroRect

(***************************************************************************)
(* C19: when the type registry changes.                                    *)
(***************************************************************************)
\* The registered types and the methods each one has.
RegistryView(reg) ==
    [c \in Classes |-> [registered |-> reg[c].registered, methods |-> reg[c].methods]]

\* C19 as stated: a call-shim, a callback, and a constructor call made
\* while its type is already Registered leave the registry (the registered
\* types and their method sets) unchanged.
C19_RegistryFrame ==
    [][/\ last'.op \notin CtorOps => RegistryView(registry') = RegistryView(registry)
       /\ (last'.op \in CtorOps /\ registry[ClassOfCtor(last'.op)].registered)
             => RegistryView(registry') = RegistryView(registry)]_vars

\* createAnimationTimer found TahoeTimerTarget registered and installed
\* tahoeTimerTick: on it.
C19_MethodAddedToRegisteredType ==
    /\ last.op = "createAnimationTimer"
    /\ last.calls # <<>>
    /\ last.calls[1] = Call("objc_getClass", TimerClass, ClassHandle(TimerClass))
    /\ \E i \in DOMAIN last.calls :
          last.calls[i] = Call("class_addMethod", "tahoeTimerTick:", 1)

(***************************************************************************)
(* C20: two threads in the same constructor.                               *)
(***************************************************************************)
\* Thread t holds a class pair for name c that it allocated while c was
\* unregistered, after a lookup that found nothing.
CreatesFor(t, c) ==
    /\ threads[t].op \in ThreadCtors /\ CtorClass(threads[t].op) = c
    /\ threads[t].found = NULL
    /\ threads[t].pair # NULL
    /\ threads[t].regsAtAlloc = 0

\* Thread t has called objc_registerClassPair on its pair.
HasRegistered(t) == threads[t].registered

\* Thread t asked for a pair for name c when c was registered already, and
\* was refused.
WasRefused(t, c) ==
    /\ threads[t].op \in ThreadCtors /\ CtorClass(threads[t].op) = c
    /\ threads[t].found = NULL
    /\ threads[t].pair = NULL
    /\ threads[t].regsAtAlloc > 0

\* C20 (under SpecRace): a thread enters the creation path only after its
\* own lookup found the name missing and only while the name is still
\* unregistered; the registrations of a name are those of the threads that
\* entered the creation path for it and reached objc_registerClassPair, so
\* a name is registered twice exactly when two threads both looked it up
\* and allocated it before either registered; and the runtime reports a
\* duplicate only then or when it refused a thread that allocated too late.
C20_DuplicateNeedsOverlap ==
    /\ \A t \in Threads :
          /\ threads[t].pair # NULL => CreatesFor(t, CtorClass(threads[t].op))
          /\ HasRegistered(t) => threads[t].pair # NULL
    /\ \A c \in Classes :
          /\ registry[c].regs =
                Cardinality({t \in Threads : CreatesFor(t, c) /\ HasRegistered(t)})
          /\ registry[c].dup <=>
                \/ registry[c].regs = 2
                \/ \E t \in Threads : WasRefused(t, c)

\* Both threads called createTahoeView, both found TahoeView missing, both
\* allocated, installed and registered it, and both have returned.
C20_BothThreadsRegistered ==
    /\ \A t \in Threads :
          /\ threads[t].op = "createTahoeView"
          /\ threads[t].found = NULL /\ threads[t].pair # NULL
          /\ threads[t].registered
          /\ threads[t].pc = "done" /\ threads[t].ret # NULL
    /\ registry[ViewClass].regs = 2
    /\ registry[ViewClass].dup

(***************************************************************************)
(* Rejections leave the world alone (checked under SpecAll).               *)
(***************************************************************************)
\* The operation recorded in o was refused for an invalid handle, an
\* out-of-range value or a missing token: a call-shim that made no foreign
\* call, a constructor given a zero token or an interval outside (0, 1],
\* a callback that routed nothing.
ValidationRejected(o) ==
    \/ o.op \in GatewayOps /\ o.calls = <<>>
    \/ /\ o.op \in CtorOps
       /\ o.ret = NULL
       /\ \/ o.args.window_ptr = 0
          \/ /\ o.op = "createAnimationTimer"
             /\ (o.args.interval <= 0 \/ o.args.interval > IntervalOne)
    \/ o.op \in CallbackOps /\ o.routed = <<>>

\* C21: a step whose operation is refused for an invalid handle, an
\* out-of-range value or a missing token leaves the class registry, the
\* instances, the association store and the scheduled timers exactly as
\* they were, and a valid call made next (each constructor, a resize or a
\* pointer event on each instance, a tick of each timer) does and returns
\* what it would have had the refused call never been made.
C21_RejectionLeavesWorld ==
    [][ValidationRejected(last') =>
           /\ UNCHANGED <<registry, instances, assoc, timers>>
           /\ createWindowDelegate(World', 42, NoFail)
                 = createWindowDelegate(World, 42, NoFail)
           /\ createAnimationTimer(World', 42, 5, NoFail)
                 = createAnimationTimer(World, 42, 5, NoFail)
           /\ createTahoeView(World', 42, NoFail) = createTahoeView(World, 42, NoFail)
           /\ \A i \in DOMAIN instances :
                 /\ windowDidResizeImpl(World', InstHandle(i), NotificationHandle,
                                        ResizeNote(PlainResize), NoFail)
                       = windowDidResizeImpl(World, InstHandle(i), NotificationHandle,
                                             ResizeNote(PlainResize), NoFail)
                 /\ tahoeViewMouseDownImpl(World', InstHandle(i), EventHandle,
                                           PointerEvent(PlainPointer), NoFail)
                       = tahoeViewMouseDownImpl(World, InstHandle(i), EventHandle,
                                                PointerEvent(PlainPointer), NoFail)
           /\ \A k \in DOMAIN timers :
                 tahoeTimerTickImpl(World', timers[k].target, TimerHandle(k), NoFail)
                   = tahoeTimerTickImpl(World, timers[k].target, TimerHandle(k), NoFail)]_vars

\* Witness: with a class registered, an instance and its token stored, a
\* timer constructor call is refused for its interval.
C21_IntervalRefusedAfterCreation ==
    /\ last.op = "createAnimationTimer"
    /\ last.ret = NULL
    /\ last.args.window_ptr # 0
    /\ last.args.interval > IntervalOne
    /\ last.calls = <<>>
    /\ registry[TimerClass].registered
    /\ Len(instances) > 0
    /\ DOMAIN assoc # {}

(***************************************************************************)
(* The first-responder query (checked under SpecView).                     *)
(***************************************************************************)
\* C22: the first-responder query answers YES for every non-null self and
\* NO exactly when self is NULL; it calls no router, makes no runtime call
\* (so it never reads the association store) and leaves the registry, the
\* instances, the store and the timers unchanged.
C22_AcceptsFirstResponder ==
    [][last'.op = "tahoeViewAcceptsFirstResponderImpl" =>
           /\ last'.ret = (IF last'.args.self = NULL THEN 0 ELSE 1)
           /\ last'.routed = <<>>
           /\ last'.calls = <<>>
           /\ UNCHANGED <<registry, instances, assoc, timers>>]_vars

\* Witness: the query answers YES on a view instance that holds a token.
C22_YesOnCreatedView ==
    /\ last.op = "tahoeViewAcceptsFirstResponderImpl"
    /\ last.args.self # NULL
    /\ last.args.self \in DOMAIN assoc
    /\ last.ret = 1

(***************************************************************************)
(* The zero token (checked under SpecSynth).                               *)
(***************************************************************************)
\* C23: a constructor called with token 0 returns NULL having made no
\* runtime call (no lookup, no allocation, no registration, no instance, no
\* store write) and leaves the world unchanged; after every step each token
\* in the association store and each timer payload is non-zero.
C23_ZeroTokenRefusedFirst ==
    [][/\ (last'.op \in CtorOps /\ last'.args.window_ptr = 0) =>
              /\ last'.ret = NULL
              /\ last'.calls = <<>>
              /\ UNCHANGED <<registry, instances, assoc, timers>>
       /\ \A h \in DOMAIN assoc' : assoc'[h] # 0
       /\ \A k \in DOMAIN timers' : timers'[k].userInfo # 0]_vars

\* Witness: the view constructor refuses token 0 although its class is
\* registered and an instance of it holds a token.
C23_ZeroTokenAfterView ==
    /\ last.op = "createTahoeView"
    /\ last.args.window_ptr = 0
    /\ last.ret = NULL
    /\ registry[ViewClass].registered
    /\ \E h \in DOMAIN assoc : ClassOf(h) = ViewClass

(***************************************************************************)
(* Provenance of routed tokens (checked under SpecAll).                    *)
(***************************************************************************)
\* The handles a constructor call has handed out together with a token:
\* delegate and view instances with a stored token, and scheduled timers.
LiveInstances == {h \in DOMAIN assoc : ClassOf(h) # TimerClass}

LiveTimers == {TimerHandle(k) : k \in DOMAIN timers}

\* The token that travels with a live handle.
LiveToken(h) ==
    IF h \in LiveTimers THEN timers[TimerIndex(h)].userInfo ELSE assoc[h]

\* What the callback recorded in o was delivered for.
SubjectOf(o) == IF o.op = "tahoeTimerTickImpl" THEN o.args.timer ELSE o.args.self

\* C24: a handle becomes live only in the step of a constructor call that
\* returns it, and then carries the non-zero token of that call for good;
\* every router call is made for a handle that was live before the callback
\* and passes its token.  Hence every routed token is non-zero and was
\* earlier given to a constructor call that returned non-null, and no
\* router call is made for a constructor call that returned NULL.
C24_RoutedTokenProvenance ==
    [][/\ \A h \in (LiveInstances \cup LiveTimers)' \ (LiveInstances \cup LiveTimers) :
              /\ last'.op \in CtorOps
              /\ last'.ret = h
              /\ last'.args.window_ptr # 0
              /\ LiveToken(h)' = last'.args.window_ptr
       /\ \A h \in LiveInstances \cup LiveTimers :
              /\ h \in (LiveInstances \cup LiveTimers)'
              /\ LiveToken(h)' = LiveToken(h)
       /\ last'.routed # <<>> =>
              /\ SubjectOf(last') \in LiveInstances \cup LiveTimers
              /\ \A j \in DOMAIN last'.routed :
                     /\ last'.routed[j].window_ptr # 0
                     /\ last'.routed[j].window_ptr = LiveToken(SubjectOf(last'))]_vars

\* Witness: after a timer constructor call with token 7 returned NULL past
\* the creation of its target, and a later call with token 42 succeeded, a
\* tick routes 42.
C24_TickAfterFailedCall ==
    /\ last.op = "tahoeTimerTickImpl"
    /\ Len(last.routed) = 1
    /\ last.routed[1].window_ptr = 42
    /\ \E i \in DOMAIN instances :
           /\ instances[i].cls = TimerClass
           /\ instances[i].token = 7
           /\ \A k \in DOMAIN timers : timers[k].target # InstHandle(i)

(***************************************************************************)
(* Scheduling and the return value (checked under SpecTimer).              *)
(***************************************************************************)
\* C25: a createAnimationTimer call that returns non-null has scheduled
\* exactly one timer, the one it returns, carrying the call's token; a call
\* that returns NULL, for whatever reason, leaves the scheduled timers as
\* they were; a tick is routed only for a scheduled timer, on its target.
C25_ScheduledIffReturned ==
    [][/\ last'.op = "createAnimationTimer" =>
              IF last'.ret # NULL
              THEN /\ Len(timers') = Len(timers) + 1
                   /\ SubSeq(timers', 1, Len(timers)) = timers
                   /\ last'.ret = TimerHandle(Len(timers'))
                   /\ timers'[Len(timers')].userInfo = last'.args.window_ptr
              ELSE timers' = timers
       /\ (last'.op = "tahoeTimerTickImpl" /\ last'.routed # <<>>) =>
              /\ TimerIndex(last'.args.timer) \in DOMAIN timers
              /\ last'.args.self = timers[TimerIndex(last'.args.timer)].target]_vars

\* Witness: the scheduling message returns NULL while an earlier timer
\* exists, and the call returns NULL with that timer alone.
C25_SchedulingReturnedNull ==
    /\ last.op = "createAnimationTimer"
    /\ last.ret = NULL
    /\ \E j \in DOMAIN last.calls : last.calls[j] = Call("objc_msgSend", "scheduledTimer", 0)
    /\ Len(timers) = 1
    /\ Len(instances) = 2

(***************************************************************************)
(* An aborted creation and the call after it (checked under SpecSynth).    *)
(***************************************************************************)
SynthOps == {"createWindowDelegate", "createTahoeView"}

\* The constructor call recorded in o installed method m.
Installed(o, m) ==
    \E i \in DOMAIN o.calls : o.calls[i] = Call("class_addMethod", m, 1)

\* C26: a createWindowDelegate or createTahoeView call in which a callback
\* selector fails to resolve or a method installation reports failure
\* returns NULL without reaching objc_registerClassPair and leaves its type
\* unregistered; a call of the same constructor made while the type is
\* allocated but unregistered finds the name missing, and when it goes on
\* to install or to return an instance it has allocated a new class pair,
\* installed every required method on it and registered it.
C26_AbortedCreationStartsOver ==
    [][last'.op \in SynthOps =>
          LET c == ClassOfCtor(last'.op)
          IN  /\ InstallFailed(last') =>
                     /\ last'.ret = NULL
                     /\ ~MadeCall(last', "objc_registerClassPair")
                     /\ ~registry'[c].registered
                     /\ instances' = instances
              /\ (registry[c].allocated /\ ~registry[c].registered
                     /\ last'.args.window_ptr # 0) =>
                     /\ last'.calls[1] = Call("objc_getClass", c, 0)
                     /\ MadeCall(last', "class_addMethod") => Allocates(last', c)
                     /\ last'.ret # NULL =>
                            /\ Allocates(last', c)
                            /\ \A m \in Required(c) : Installed(last', m)
                            /\ MadeCall(last', "objc_registerClassPair")
                            /\ registry'[c].registered
                            /\ registry'[c].methods = Required(c)]_vars

\* Witness: a view creation has just aborted in its install steps, the
\* type is allocated and unregistered, and the next createTahoeView call
\* can return an instance having allocated the type again.
C26_ViewAbortedThenRetried ==
    /\ last.op = "createTahoeView"
    /\ InstallFailed(last)
    /\ last.ret = NULL
    /\ registry[ViewClass].allocated /\ ~registry[ViewClass].registered
    /\ ENABLED (CreateTahoeView /\ last'.ret # NULL /\ Allocates(last', ViewClass))

(***************************************************************************)
(* The plain call-shim and the ISA word (checked under SpecGateway).       *)
(***************************************************************************)
\* A 64-bit word, as four 16-bit limbs, that passes the ISA checks:
\* non-null, at least 0x1000, a multiple of 8, at most 0x7fffffffffff.
IsaAcceptable(v) ==
    /\ v # <<0, 0, 0, 0>>
    /\ (v[1] > 0 \/ v[2] > 0 \/ v[3] > 0 \/ v[4] >= 4096)
    /\ v[4] % 8 = 0
    /\ v[1] = 0 /\ v[2] <= 32767

\* C27: objc_msgSend_wrapper reads the receiver's first word only when the
\* receiver and the selector are non-null and the receiver is at least
\* 0x1000 and 8-byte aligned, and reads nothing else; it makes its one
\* foreign call exactly when, in addition, the word read is non-null, at
\* least 0x1000, 8-byte aligned and at most 0x7fffffffffff; in every other
\* case it returns NULL with no foreign call.
C27_WrapperForwardsIff ==
    last.op = "objc_msgSend_wrapper" =>
        IF BadReceiver(last.args.receiver) \/ last.args.selector = NULL
        THEN last.ret = NULL /\ last.calls = <<>> /\ last.derefs = <<>>
        ELSE /\ Len(last.derefs) = 1
             /\ last.derefs[1].addr = last.args.receiver
             /\ IF IsaAcceptable(last.derefs[1].val)
                THEN last.calls = <<MsgSend(last.args.receiver, last.args.selector,
                                            <<>>, last.ret)>>
                ELSE last.ret = NULL /\ last.calls = <<>>

\* Witness: a receiver whose ISA word is 0x7ffffffffff8, the largest
\* acceptable one, is forwarded and the foreign result returned.
C27_LargestIsaForwarded ==
    /\ last.op = "objc_msgSend_wrapper"
    /\ Len(last.derefs) = 1
    /\ last.derefs[1].val = <<0, 32767, 65535, 65528>>
    /\ Len(last.calls) = 1
    /\ last.ret # NULL

(***************************************************************************)
(* The optional argument of objc_msgSend_void_1 (under SpecGateway).       *)
(***************************************************************************)
\* C28: objc_msgSend_void_1 makes no foreign call when its argument is
\* non-null and below 0x1000 or not 8-byte aligned; with a valid receiver
\* and selector it forwards once, passing the argument as given, when the
\* argument is NULL or a valid address.
C28_Void1OptionalArg ==
    last.op = "objc_msgSend_void_1" =>
        LET a == last.args.arg1
            badArg == a # NULL /\ (a < 4096 \/ a % 8 # 0)
        IN  /\ badArg => last.calls = <<>>
            /\ (~badArg /\ ~BadReceiver(last.args.receiver)
                    /\ last.args.selector # NULL) =>
                   last.calls = <<MsgSend(last.args.receiver, last.args.selector,
                                          <<a>>, 0)>>

\* Witness: a NULL argument is forwarded.
C28_NullArgForwarded ==
    /\ last.op = "objc_msgSend_void_1"
    /\ last.args.arg1 = NULL
    /\ Len(last.calls) = 1
    /\ last.calls[1].args = <<NULL>>

(***************************************************************************)
(* Scalars and the rectangle copy (checked under SpecGateway).             *)
(***************************************************************************)
\* A 64-bit value, as four 16-bit limbs, above 0xFFFFFFFF.
Over32Bits(v) == v[1] > 0 \/ v[2] > 0

\* C29: objc_msgSend_wrapper_4 called with an unsigned scalar above
\* 0xFFFFFFFF returns NULL with no foreign call and without having copied
\* the rectangle; either rectangle shim reads memory only at rect_ptr, once,
\* and only when rect_ptr is non-null, at least 0x1000 and 8-byte aligned.
C29_ScalarsBeforeRectCopy ==
    /\ (last.op = "objc_msgSend_wrapper_4"
           /\ (Over32Bits(last.args.arg2) \/ Over32Bits(last.args.arg3))) =>
          last.ret = NULL /\ last.calls = <<>> /\ last.derefs = <<>>
    /\ (last.op \in RectOps /\ last.derefs # <<>>) =>
          /\ last.args.rect_ptr # NULL
          /\ last.args.rect_ptr >= 4096
          /\ last.args.rect_ptr % 8 = 0
          /\ Len(last.derefs) = 1
          /\ last.derefs[1].addr = last.args.rect_ptr

\* Witness: every handle valid and the rectangle 800 x 600, the third
\* scalar 0x100000000: refused with the rectangle not read.
C29_LargeScalarRefusedUnread ==
    /\ last.op = "objc_msgSend_wrapper_4"
    /\ ~BadReceiver(last.args.receiver) /\ last.args.selector # NULL
    /\ ~BadReceiver(last.args.rect_ptr)
    /\ last.args.rect.w = 800 /\ last.args.rect.h = 600
    /\ last.args.arg2 = <<0, 0, 0, 2>>
    /\ last.args.arg3 = <<0, 1, 0, 0>>
    /\ last.ret = NULL /\ last.calls = <<>> /\ last.derefs = <<>>

(***************************************************************************)
(* The string pointer of objc_msgSend_wrapper_string (under SpecGateway).  *)
(***************************************************************************)
\* C30: objc_msgSend_wrapper_string makes no foreign call and returns NULL
\* when the string pointer is NULL or below 0x1000; with a valid receiver
\* and selector and a string pointer of at least 0x1000, aligned or not,
\* it makes exactly one foreign call, passing the pointer as given, and
\* returns its result.
C30_StringNeedsNoAlignment ==
    last.op = "objc_msgSend_wrapper_string" =>
        LET u == last.args.utf8_string
        IN  /\ (u = NULL \/ u < 4096) => last.ret = NULL /\ last.calls = <<>>
            /\ (u >= 4096 /\ ~BadReceiver(last.args.receiver)
                    /\ last.args.selector # NULL) =>
                   last.calls = <<MsgSend(last.args.receiver, last.args.selector,
                                          <<u>>, last.ret)>>

\* Witness: the string at 0x1004 is forwarded.
C30_UnalignedStringForwarded ==
    /\ last.op = "objc_msgSend_wrapper_string"
    /\ last.args.utf8_string = 4100
    /\ Len(last.calls) = 1
    /\ last.calls[1].args = <<4100>>
    /\ last.ret # NULL

(***************************************************************************)
(* What the rectangle query returns (checked under SpecGateway).           *)
(***************************************************************************)
\* C31: objc_msgSend_returns_NSRect returns the all-zero rectangle with no
\* foreign call when the receiver or the selector is NULL; otherwise it
\* makes one foreign call and returns the rectangle that call produced,
\* unchanged, whatever its width and height.
C31_RectQueryReturnsForeignRect ==
    last.op = "objc_msgSend_returns_NSRect" =>
        IF last.args.receiver = NULL \/ last.args.selector = NULL
        THEN last.calls = <<>> /\ last.rect = ZeroRect
        ELSE /\ Len(last.calls) = 1
             /\ last.calls[1].recv = last.args.receiver
             /\ last.calls[1].sel = last.args.selector
             /\ last.rect = last.calls[1].res

\* Witness: the foreign call produced a rectangle 20000 wide and the
\* query returned it.
C31_WideRectReturned ==
    /\ last.op = "objc_msgSend_returns_NSRect"
    /\ Len(last.calls) = 1
    /\ last.calls[1].res = [x |-> 5, y |-> 6, w |-> 20000, h |-> 600]
    /\ last.rect.w = 20000 /\ last.rect.h = 600

(***************************************************************************)
(* The character field as a byte (checked under SpecView).                 *)
(***************************************************************************)
\* The first byte of the event's UTF-8 string as an unsigned number, 0 when
\* the string is absent or empty.
FirstByteUnsigned(ev) ==
    IF ev.characters = NULL \/ Len(ev.utf8) = 0 THEN W(0) ELSE W(ev.utf8[1])

\* C32 as stated: the character passed to routeKeyboardEvent by the
\* key-down and key-up callbacks, every selector resolving, is the first
\* byte of the event's UTF-8 string as an unsigned number in 0..255, with
\* nothing in the upper 24 bits, and 0 when the string is absent or empty.
C32_CharacterIsUnsignedByte ==
    (last.op \in KeyOps /\ ~SelectorFailed(last)) =>
        \A j \in DOMAIN last.routed :
            last.routed[j].character = FirstByteUnsigned(last.args.ev)

\* The case the code does not meet: a key-up whose string starts with the
\* byte 0xC8 was routed with a character whose upper 24 bits are all set.
C32_HighByteFillsUpperBits ==
    /\ last.op = "tahoeViewKeyUpImpl"
    /\ Len(last.args.ev.utf8) > 0
    /\ last.args.ev.utf8[1] = 200
    /\ Len(last.routed) = 1
    /\ last.routed[1].character = <<0, 0, 65535, 65480>>
    /\ last.routed[1].character # FirstByteUnsigned(last.args.ev)

(***************************************************************************)
(* Widths of the routed fields (checked under SpecView).                   *)
(***************************************************************************)
\* C33: the modifier mask a pointer or key callback passes to its router
\* is the event's modifier flags modulo 2^32 (the two upper 16-bit limbs
\* cleared, the two lower ones unchanged), and the key code a key callback
\* passes is the event's 16-bit key code, a number in 0..65535.
C33_ModifiersLow32KeyCode16 ==
    (last.op \in PointerOps \cup KeyOps) =>
        \A j \in DOMAIN last.routed :
            LET m == last.args.ev.modifierFlags
            IN  /\ last.routed[j].modifiers = <<0, 0, m[3], m[4]>>
                /\ last.op \in KeyOps =>
                       /\ last.routed[j].key_code = last.args.ev.keyCode
                       /\ last.routed[j].key_code \in 0..65535

\* Witness: a key-down with key code 0xFFFF and modifier flags 0x100000005
\* was routed with key code 65535 and modifiers 5.
C33_UpperBitsDropped ==
    /\ last.op = "tahoeViewKeyDownImpl"
    /\ last.args.ev.modifierFlags = <<0, 1, 0, 5>>
    /\ Len(last.routed) = 1
    /\ last.routed[1].key_code = 65535
    /\ last.routed[1].modifiers = <<0, 0, 0, 5>>

(***************************************************************************)
(* The order of the resize callback's checks (under SpecDelegate).         *)
(***************************************************************************)
\* The resize callback recorded in o sent message m to the runtime.
Sent(o, m) ==
    \E i \in DOMAIN o.calls : o.calls[i].fn = "objc_msgSend" /\ o.calls[i].arg = m

\* C34: the resize callback calls no router when the notification's window
\* or the window's content view is NULL; it reads the token only with self
\* and the notification non-null, asks the notification for its window
\* only with a non-zero token, asks the window for its content view only
\* with a non-null window, and calls routeWindowDidResize only when all
\* five have been found.
C34_ResizeChecksInOrder ==
    last.op = "windowDidResizeImpl" =>
        LET a == last.args
        IN  /\ (a.note.window = NULL \/ a.note.contentView = NULL) => last.routed = <<>>
            /\ last.calls # <<>> =>
                   /\ a.self # NULL /\ a.notification # NULL
                   /\ last.calls[1].fn = "objc_getAssociatedObject"
            /\ Sent(last, "object") => last.calls[1].res # 0
            /\ Sent(last, "contentView") =>
                   /\ Sent(last, "object")
                   /\ a.note.window # NULL
            /\ last.routed # <<>> =>
                   /\ Sent(last, "contentView")
                   /\ a.note.contentView # NULL
                   /\ Len(last.routed) = 1
                   /\ last.routed[1].window_ptr = last.calls[1].res

\* Witness: with self, the notification, the token and the window all
\* found, the content view is NULL and nothing is routed.
C34_NullContentViewNotRouted ==
    /\ last.op = "windowDidResizeImpl"
    /\ last.args.note.window # NULL
    /\ last.args.note.contentView = NULL
    /\ Sent(last, "contentView")
    /\ last.routed = <<>>

(***************************************************************************)
(* The steps of the image constructor (checked under SpecImage).           *)
(***************************************************************************)
\* The messages createNSImageFromCGImage sends, in the order of the source.
ImageSteps ==
    <<"NSBitmapImageRep alloc", "initWithCGImage:", "NSImage alloc", "initWithSize:",
      "addRepresentation:">>

IsMessage(c) == c.fn = "objc_msgSend"

\* C35: createNSImageFromCGImage given a NULL source returns NULL having
\* made no runtime call.  Otherwise the messages it sends are an initial
\* part of: allocate the bitmap rep, initialize it from the source,
\* allocate the image, initialize it with the size, add the representation;
\* a runtime call that yields NULL is the last call made and the result is
\* NULL; the representation is added exactly when the result is non-null,
\* once, after the four earlier messages all returned an object, and the
\* result is the initialized image.
C35_ImageStepsInOrder ==
    last.op = "createNSImageFromCGImage" =>
        LET ms == SelectSeq(last.calls, IsMessage)
            n == Len(ms)
        IN  /\ last.args.cgImage = NULL => last.ret = NULL /\ last.calls = <<>>
            /\ n <= Len(ImageSteps)
            /\ \A i \in 1..n : ms[i].arg = ImageSteps[i]
            /\ \A i \in DOMAIN last.calls :
                   (last.calls[i].res = 0 /\ last.calls[i].arg # "addRepresentation:")
                       => i = Len(last.calls) /\ last.ret = NULL
            /\ last.ret # NULL <=> n = 5
            /\ n = 5 =>
                   /\ \A i \in 1..4 : ms[i].res # 0
                   /\ last.ret = ms[4].res
                   /\ last.calls[Len(last.calls)] = ms[5]

\* Witness: the image was allocated but its initialization returned NULL:
\* four messages sent, no representation added, NULL returned.
C35_ImageInitFailedNoRepAdded ==
    /\ last.op = "createNSImageFromCGImage"
    /\ last.ret = NULL
    /\ Len(SelectSeq(last.calls, IsMessage)) = 4
    /\ last.calls[Len(last.calls)] = Call("objc_msgSend", "initWithSize:", 0)

(***************************************************************************)
(* Every operation together.                                               *)
(***************************************************************************)
\* The inputs drawn when every constructor, call-shim and callback runs
\* next to every other, for the operation recorded in o in a world of n
\* instances.  Call-shims: a NULL, a sub-floor and a valid receiver, a
\* valid selector, an accepted and an oversized rectangle, scalars within
\* and above 32 bits.  Constructors: the zero token, a refused interval
\* with any token, and with an accepted interval token 7 for the first
\* instance and 42 for the second, succeeding or with one of the two
\* runtime failures that leave an object behind (a missing init selector,
\* a missing NSNumber class).  Callbacks: the plain event or
\* notification, with or without its handle, any runtime failure.
InScope(o, n) ==
    LET a == o.args IN
    IF o.op \in GatewayOps
    THEN /\ a.receiver \in {0, 8, 4104}
         /\ a.selector = 4242
         /\ "utf8_string" \in DOMAIN a => a.utf8_string = 4104
         /\ "rect_ptr" \in DOMAIN a
               => a.rect_ptr = 4104 /\ <<a.rect.w, a.rect.h>> \in {<<800, 600>>, <<16385, 600>>}
         /\ "arg2" \in DOMAIN a
               => /\ <<a.arg2, a.arg3>> \in {<<(<<0, 0, 0, 0>>), (<<0, 0, 0, 0>>)>>,
                                             <<(<<0, 1, 0, 0>>), (<<0, 0, 0, 2>>)>>}
                  /\ a.arg4 = 1
         /\ "arg1" \in DOMAIN a => a.arg1 \in {1, 4100, 4104}
         /\ "index" \in DOMAIN a => a.index \in {<<0, 0, 0, 0>>, <<0, 1, 0, 0>>}
    ELSE IF o.op \in CtorOps
    THEN /\ "interval" \in DOMAIN a => a.interval \in {5, 11}
         /\ \/ a.window_ptr = 0
            \/ "interval" \in DOMAIN a /\ a.interval = 11
            \/ /\ a.window_ptr = (IF n = 0 THEN 7 ELSE 42)
               /\ \/ o.ret # NULL
                  \/ o.diags[Len(o.diags)] \in {"init selector not found",
                                                "NSNumber class not found"}
    ELSE IF o.op = "createNSImageFromCGImage"
    THEN a.cgImage \in {0, 4104} /\ a.width = 800 /\ (o.ret # NULL \/ o.calls = <<>>)
    ELSE IF o.op \in PointerOps THEN a.ev = PointerEvent(PlainPointer)
    ELSE IF o.op \in KeyOps THEN a.ev = KeyEvent(PlainKey)
    ELSE IF o.op = "windowDidResizeImpl" THEN a.note = ResizeNote(PlainResize)
    ELSE TRUE

\* The constructors, the image constructor, the nine call-shims, the
\* eleven callbacks and ticks sent by hand, in any order.
NextAll ==
    \/ WrapperString /\ InScope(last', Len(instances))
    \/ Wrapper /\ InScope(last', Len(instances))
    \/ WrapperRect /\ InScope(last', Len(instances))
    \/ Wrapper4 /\ InScope(last', Len(instances))
    \/ Void1 /\ InScope(last', Len(instances))
    \/ Void0 /\ InScope(last', Len(instances))
    \/ Void1Bool /\ InScope(last', Len(instances))
    \/ Wrapper1UInt /\ InScope(last', Len(instances))
    \/ ReturnsNSRect /\ InScope(last', Len(instances))
    \/ CreateNSImage /\ InScope(last', Len(instances))
    \/ CreateWindowDelegate /\ InScope(last', Len(instances))
    \/ CreateAnimationTimer /\ InScope(last', Len(instances))
    \/ CreateTahoeView /\ InScope(last', Len(instances))
    \/ WindowDidResize /\ InScope(last', Len(instances))
    \/ WindowDidBecomeKey /\ InScope(last', Len(instances))
    \/ WindowDidResignKey /\ InScope(last', Len(instances))
    \/ TimerFire /\ InScope(last', Len(instances))
    \/ TickSent /\ InScope(last', Len(instances))
    \/ MouseDown /\ InScope(last', Len(instances))
    \/ MouseUp /\ InScope(last', Len(instances))
    \/ MouseDragged /\ InScope(last', Len(instances))
    \/ MouseMoved /\ InScope(last', Len(instances))
    \/ KeyDown /\ InScope(last', Len(instances))
    \/ KeyUp /\ InScope(last', Len(instances))
    \/ AcceptsFirstResponder /\ InScope(last', Len(instances))

SpecAll == Init /\ [][NextAll]_vars

====
